---- MODULE Spec2Model ----
(***************************************************************************)
(* Access-control core of tosijs-platform: the access resolver             *)
(* (functions/src/collections/access.ts), the /doc endpoint and getDoc     *)
(* (functions/src/doc.ts) and the /docs endpoint and getDocs               *)
(* (functions/src/docs.ts).                                                *)
(*                                                                         *)
(* Conventions.  A path is a sequence of segments; a segment is the tuple  *)
(* of the parts that split('=') yields (<<"d1">> for an id, <<"f","v">>    *)
(* for f=v).  A registry key is the sequence of collection names that      *)
(* collectionPath joins with '/'.  A document is a function from field     *)
(* names to values; a property whose value is undefined is modelled as an  *)
(* absent key (JSON drops it).  Date.now() is the variable now.            *)
(***************************************************************************)
EXTENDS Integers, Sequences, FiniteSets, TLC

VARIABLES
  COLLECTIONS,  \* the registry of collection configurations
  store,        \* the document store: document reference -> data
  docCache,     \* the document cache of doc.ts
  now,          \* Date.now(), in milliseconds
  writes,       \* number of store mutations made so far
  res,          \* the request being answered and its answer
  rateLimitMap, \* the rate limit entries of utilities.ts: IP -> entry
  lastCleanup,  \* when the rate limit entries were last cleaned up
  admitted,     \* requests that passed the rate limit, by recent instant
  pending       \* the /doc writes in flight

\* the state of the rate limiter
rateVars == <<rateLimitMap, lastCleanup, admitted>>

vars == <<COLLECTIONS, store, docCache, now, writes, res, rateVars, pending>>

-----------------------------------------------------------------------------
(* roles.ts *)

ROLES == {"owner", "developer", "admin", "editor", "author", "public"}

\* anonymousUser.roles
anonymousUser == {}

-----------------------------------------------------------------------------
(* access.ts: grants *)

\* the absence of a grant (undefined)
NONE == [kind |-> "undefined"]

\* the ALL symbol
ALL == [kind |-> "ALL"]

\* a FieldAccessMap: field name -> "ALL" (the symbol) or any other value
FieldAccessMap(m) == [kind |-> "object", map |-> m]

\* an AccessFilterFunc written in a configuration, known by its name
AccessFilterFunc(f) == [kind |-> "function", fn |-> f]

\* the closure getMethodAccess generates around a field map
FieldFilterFunc(m) == [kind |-> "function", fn |-> "fieldFilter", map |-> m]

\* an AccessConfig; a category without grant holds NONE
AccessConfig(r, w, l) == [read |-> r, write |-> w, list |-> l]

\* the REST_METHOD vocabulary and one method outside it
REST_METHOD == {"GET", "POST", "PUT", "PATCH", "DELETE", "LIST"}

\* accessMap that lets DELETE through on a read grant
accessMapDeleteReads ==
  [GET |-> "read", POST |-> "write", PUT |-> "write", PATCH |-> "write",
   DELETE |-> "read", LIST |-> "list"]

accessMap ==
  [GET |-> "read", POST |-> "write", PUT |-> "write", PATCH |-> "write",
   DELETE |-> "write", LIST |-> "list"]

\* the result of a filter function: a document, an Error or undefined
Data(d) == [kind |-> "data", data |-> d]
Error(m) == [kind |-> "Error", message |-> m]
Undefined == [kind |-> "undefined"]

\* JS truthiness of a property value that may be missing
Truthy(d, f) == f \in DOMAIN d /\ d[f] \notin {"", "false"}

\* restriction of a function to a set of keys
Restrict(f, S) == [k \in (DOMAIN f) \cap S |-> f[k]]

\* filter functions found in the configurations of the repository
ApplyConfigFunc(f, data) ==
  CASE f = "publishedOnly" ->
         \* access.test.ts drafts.read
         IF Truthy(data, "published") THEN Data(data)
         ELSE Error("not published")
    [] f = "listPublished" ->
         \* access.ts documentation, post.list
         IF Truthy(data, "published") THEN Data(data) ELSE Undefined
    [] f = "ownPosts" ->
         \* security model documentation, post.write of author, for the
         \* caller whose user id is u1
         IF "author" \in DOMAIN data /\ data["author"] = "u1" THEN Data(data)
         ELSE Error("Can only edit own posts")
    [] f = "hasDate" ->
         \* blog.ts post.list of public
         IF "date" \in DOMAIN data THEN Data(data) ELSE Error("unpublished")
    [] OTHER -> Data(data)

\* the closure of getMethodAccess around _access
ApplyFieldFilter(m, data) ==
  Data(Restrict(data, {"_path"} \cup {k \in DOMAIN m : m[k] = "ALL"}))

\* calling a grant that is a function
ApplyAccess(access, data) ==
  IF access.fn = "fieldFilter" THEN ApplyFieldFilter(access.map, data)
  ELSE ApplyConfigFunc(access.fn, data)

-----------------------------------------------------------------------------
(* access.ts: getMethodAccess *)

\* index of a role's entry in an access map kept in declaration order, or 0
RoleIndex(access, role) ==
  IF \E i \in 1..Len(access) : access[i].role = role
  THEN CHOOSE i \in 1..Len(access) : access[i].role = role
  ELSE 0

\* RoleLoop with a most-permissive rule: a grant of ALL is never overwritten
RECURSIVE RoleLoopMostPermissive(_, _, _, _, _)
RoleLoopMostPermissive(access, i, roles, accessType, acc) ==
  IF i > Len(access) THEN acc
  ELSE RoleLoopMostPermissive(access, i + 1, roles, accessType,
         IF /\ access[i].role \in roles
            /\ access[i].config[accessType] # NONE
            /\ ~(acc # 0 /\ access[acc].config[accessType] = [kind |-> "ALL"])
         THEN i ELSE acc)

\* RoleLoop with an inferred hierarchy: a role also matches the entries of
\* the roles below it
RoleRank ==
  [public |-> 0, author |-> 1, editor |-> 2, admin |-> 3, developer |-> 4,
   owner |-> 5]
RECURSIVE RoleLoopHierarchy(_, _, _, _, _)
RoleLoopHierarchy(access, i, roles, accessType, acc) ==
  IF i > Len(access) THEN acc
  ELSE RoleLoopHierarchy(access, i + 1, roles, accessType,
         IF /\ \E r \in roles : RoleRank[r] >= RoleRank[access[i].role]
            /\ access[i].config[accessType] # NONE
         THEN i ELSE acc)

\* RoleLoop in which a held role that declares no grant for the category
\* clears the grant found so far
RECURSIVE RoleLoopOverwriting(_, _, _, _, _)
RoleLoopOverwriting(access, i, roles, accessType, acc) ==
  IF i > Len(access) THEN acc
  ELSE RoleLoopOverwriting(access, i + 1, roles, accessType,
         IF access[i].role \in roles
         THEN (IF access[i].config[accessType] # NONE THEN i ELSE 0)
         ELSE acc)

\* the loop over Object.keys(config.access): acc is the index of the entry
\* whose grant is the current value of `access` (0: undefined)
RECURSIVE RoleLoop(_, _, _, _, _)
RoleLoop(access, i, roles, accessType, acc) ==
  IF i > Len(access) THEN acc
  ELSE RoleLoop(access, i + 1, roles, accessType,
                IF access[i].role \in roles /\ access[i].config[accessType] # NONE
                THEN i ELSE acc)

\* ResolvedEntry without the public floor: `access` starts undefined
ResolvedEntryNoFloor(access, accessType, roles) ==
  RoleLoop(access, 1, roles, accessType, 0)

\* the entry whose grant getMethodAccess resolves, 0 if none
ResolvedEntry(access, accessType, roles) ==
  LET p == RoleIndex(access, "public")
      init == IF p # 0 /\ access[p].config[accessType] # NONE THEN p ELSE 0
  IN RoleLoop(access, 1, roles, accessType, init)

\* String(i) for the indices `for (const key in Object.keys(access))` yields
IndexKeys(m) == {ToString(i) : i \in 0..(Cardinality(DOMAIN m) - 1)}

\* filterFields is [given |-> FALSE] for false, else [given |-> TRUE, fields |-> seq]
NoFields == [given |-> FALSE, fields |-> <<>>]
Fields(s) == [given |-> TRUE, fields |-> s]
Range(s) == {s[i] : i \in DOMAIN s}

\* the field map left by the loop `delete access.key`
NarrowedMap(m, filterFields) ==
  IF \E k \in IndexKeys(m) : k \notin Range(filterFields.fields)
  THEN Restrict(m, (DOMAIN m) \ {"key"})
  ELSE m

\* the value of `access` after the filterFields block
Narrowed(access, filterFields) ==
  IF ~filterFields.given THEN access
  ELSE IF access = ALL
       THEN FieldAccessMap([k \in Range(filterFields.fields) |-> "ALL"])
       ELSE IF access.kind = "object"
            THEN FieldAccessMap(NarrowedMap(access.map, filterFields))
            ELSE access

\* the final wrap of a field map
Wrapped(access) ==
  IF access.kind = "object" THEN FieldFilterFunc(access.map) ELSE access

\* a CollectionConfig; cacheLatencySeconds 0 stands for an absent setting
CollectionConfig(access, unique, tagFields, cacheLatencySeconds) ==
  [exists |-> TRUE, hasAccess |-> TRUE, access |-> access, unique |-> unique,
   tagFields |-> tagFields, cacheLatencySeconds |-> cacheLatencySeconds,
   schema |-> "none", validate |-> "none"]

\* a configuration that declares no access map
NoAccessConfig ==
  [exists |-> TRUE, hasAccess |-> FALSE, access |-> <<>>, unique |-> {},
   tagFields |-> {}, cacheLatencySeconds |-> 0, schema |-> "none",
   validate |-> "none"]

\* the value of collections[collectionPath] for a key that is not there
NoConfig ==
  [exists |-> FALSE, hasAccess |-> FALSE, access |-> <<>>, unique |-> {},
   tagFields |-> {}, cacheLatencySeconds |-> 0, schema |-> "none",
   validate |-> "none"]

\* LookupConfig that falls back on the configuration of the parent collection
LookupConfigInherited(collections, collectionPath) ==
  IF collectionPath \in DOMAIN collections THEN collections[collectionPath]
  ELSE IF Len(collectionPath) > 1
          /\ SubSeq(collectionPath, 1, Len(collectionPath) - 1) \in DOMAIN collections
       THEN collections[SubSeq(collectionPath, 1, Len(collectionPath) - 1)]
       ELSE NoConfig

\* collections[collectionPath]
LookupConfig(collections, collectionPath) ==
  IF collectionPath \in DOMAIN collections THEN collections[collectionPath]
  ELSE NoConfig

\* the grant getMethodAccess returns
getMethodAccess(collections, collectionPath, method, roles, filterFields) ==
  LET config == LookupConfig(collections, collectionPath) IN
    IF ~config.exists \/ ~config.hasAccess THEN NONE
    ELSE IF method \notin DOMAIN accessMap THEN NONE
    ELSE LET accessType == accessMap[method]
             e == ResolvedEntry(config.access, accessType, roles)
             access == IF e = 0 THEN NONE ELSE config.access[e].config[accessType]
         IN Wrapped(Narrowed(access, filterFields))

\* the registry after the call: `delete access.key` acts on the field map
\* object held by the configuration
RegistryAfter(collections, collectionPath, method, roles, filterFields) ==
  LET config == LookupConfig(collections, collectionPath) IN
    IF ~config.exists \/ ~config.hasAccess \/ method \notin DOMAIN accessMap
    THEN collections
    ELSE LET accessType == accessMap[method]
             e == ResolvedEntry(config.access, accessType, roles)
         IN IF e = 0 \/ ~filterFields.given THEN collections
            ELSE LET access == config.access[e].config[accessType] IN
              IF access.kind # "object" THEN collections
              ELSE [collections EXCEPT
                      ![collectionPath].access[e].config[accessType] =
                        FieldAccessMap(NarrowedMap(access.map, filterFields))]

-----------------------------------------------------------------------------
(* Registries and inputs of the access resolver *)

\* most declared roles in a generated access map
MaxDeclared == 2

DeclaredRoles == {"public", "author", "admin"}

CallerRoles == SUBSET {"public", "author", "admin", "developer"}

NameEmail == [name |-> "ALL", email |-> "ALL"]
NameKey == [name |-> "ALL", key |-> "ALL"]

AccessConfigs ==
  { AccessConfig(ALL, ALL, ALL),
    AccessConfig(FieldAccessMap(NameEmail), NONE, FieldAccessMap(NameKey)),
    AccessConfig(AccessFilterFunc("publishedOnly"), NONE,
                 AccessFilterFunc("publishedOnly")),
    AccessConfig(NONE, ALL, NONE) }

\* access maps: up to MaxDeclared entries with distinct roles, in any order
AccessMaps ==
  UNION { { a \in [1..n -> [role : DeclaredRoles, config : AccessConfigs]] :
              \A i, j \in 1..n : i # j => a[i].role # a[j].role }
          : n \in 0..MaxDeclared }

\* registries: `post` is configured, `locked` has no access map and
\* `post/comment` is not a key
Registries ==
  { (<<"post">> :> CollectionConfig(a, {}, {}, 0)) @@
    (<<"locked">> :> NoAccessConfig) : a \in AccessMaps }

CollectionPaths == {<<"post">>, <<"locked">>, <<"post", "comment">>}

Methods == REST_METHOD \cup {"HEAD"}

FilterFields == {NoFields, Fields(<<"name">>), Fields(<<"0", "1", "name">>)}

InitAccess ==
  /\ COLLECTIONS \in Registries
  /\ store = <<>>
  /\ docCache = <<>>
  /\ now = 0
  /\ writes = 0
  /\ res = [op |-> "none"]
  /\ rateLimitMap = <<>>
  /\ lastCleanup = 0
  /\ admitted = <<0, 0>>
  /\ pending = <<>>

\* one call of getMethodAccess on the registry
CallGetMethodAccess ==
  /\ res.op = "none"
  /\ \E collectionPath \in CollectionPaths, method \in Methods,
     roles \in CallerRoles, filterFields \in FilterFields :
       /\ res' = [op |-> "getMethodAccess", collections |-> COLLECTIONS,
                  collectionPath |-> collectionPath, method |-> method,
                  roles |-> roles, filterFields |-> filterFields,
                  result |-> getMethodAccess(COLLECTIONS, collectionPath,
                                             method, roles, filterFields)]
       /\ COLLECTIONS' = RegistryAfter(COLLECTIONS, collectionPath, method,
                                       roles, filterFields)
       /\ UNCHANGED <<store, docCache, now, writes>>
  /\ UNCHANGED <<rateVars, pending>>

\* the caller has consumed the result; the next request can start
Done ==
  /\ res.op # "none"
  /\ res' = [op |-> "none"]
  /\ UNCHANGED <<COLLECTIONS, store, docCache, now, writes>>
  /\ UNCHANGED <<rateVars, pending>>

NextAccess == CallGetMethodAccess \/ Done

SpecAccess == InitAccess /\ [][NextAccess]_vars

-----------------------------------------------------------------------------
(* doc.ts: paths, store references and getRef *)

\* path.split('/') is the path itself; docSpecifier.split('=', 2) of the
\* segments that contain '='
SplitEq(segment) ==
  CASE segment = "name=n2" -> <<"name", "n2">>
    [] segment = "name=zz" -> <<"name", "zz">>
    [] segment = "email=e1" -> <<"email", "e1">>
    [] segment = "title=t2" -> <<"title", "t2">>
    [] segment = "tags=g1" -> <<"tags", "g1">>
    [] OTHER -> <<segment>>

\* collectionPath that keeps the first collection name only
collectionPathOfRoot(path) ==
  IF path = <<>> THEN <<>> ELSE <<path[1]>>

\* collectionPath: the segments at even positions (0, 2, ...), joined
collectionPath(path) ==
  LET idx == {i \in 1..Len(path) : i % 2 = 1}
      f[k \in 0..Cardinality(idx)] ==
        IF k = 0 THEN <<>> ELSE Append(f[k - 1], path[2 * k - 1])
  IN f[Cardinality(idx)]

\* the order in which the store returns document ids
IdOrder == <<"d1", "d2", "d3">>
IdRank(id) == CHOOSE i \in 1..Len(IdOrder) : IdOrder[i] = id

\* references: a document, a collection or a query on a collection
DocRef(path) == [kind |-> "doc", path |-> path]
CollRef(path) == [kind |-> "collection", path |-> path, where |-> <<>>]
QueryRef(path, field, operator, value) ==
  [kind |-> "query", path |-> path, where |-> <<field, operator, value>>]
Thrown == [kind |-> "throw"]

\* the documents of a collection reference that satisfy a where clause
WhereHolds(data, where) ==
  \/ where = <<>>
  \/ /\ where[2] = "=="
     /\ where[1] \in DOMAIN data
     /\ data[where[1]] = where[3]
  \/ /\ where[2] = "array-contains"
     /\ where[1] \in DOMAIN data
     /\ data[where[1]] = where[3]

\* ids of the documents a collection reference or query selects
Selected(st, path, where) ==
  {id \in Range(IdOrder) :
     /\ Append(path, id) \in DOMAIN st
     /\ WhereHolds(st[Append(path, id)], where)}

\* the selected ids in the order of the store
RECURSIVE InOrder(_, _)
InOrder(ids, i) ==
  IF i > Len(IdOrder) THEN <<>>
  ELSE (IF IdOrder[i] \in ids THEN <<IdOrder[i]>> ELSE <<>>)
       \o InOrder(ids, i + 1)

\* getRef: the loop over the pairs (collection, docSpecifier) of the path
RECURSIVE getRefLoop(_, _, _, _, _, _)
getRefLoop(collections, st, pathParts, isCollection, ref, collectionStack) ==
  IF pathParts = <<>> THEN ref
  ELSE
    LET collection == Head(pathParts)
        more == Tail(pathParts)
        docSpecifier == IF more = <<>> THEN "" ELSE Head(more)
        rest == IF more = <<>> THEN <<>> ELSE Tail(more)
        stack == IF collection # "" THEN Append(collectionStack, collection)
                 ELSE collectionStack
    IN
      IF collection = "" THEN Thrown
      ELSE IF ref.kind \in {"collection", "query"} THEN Thrown
      ELSE IF docSpecifier = ""
        THEN IF ~isCollection \/ rest # <<>> THEN Thrown
             ELSE getRefLoop(collections, st, rest, isCollection,
                             CollRef(Append(ref.path, collection)), stack)
      ELSE IF Len(SplitEq(docSpecifier)) = 1
        THEN getRefLoop(collections, st, rest, isCollection,
                        DocRef(ref.path \o <<collection, docSpecifier>>), stack)
      ELSE
        LET field == SplitEq(docSpecifier)[1]
            value == SplitEq(docSpecifier)[2]
            config == LookupConfig(collections, stack)
            isUnique == field \in config.unique
            isTagField == field \in config.tagFields
            operator == IF isTagField THEN "array-contains" ELSE "=="
            collRef == Append(ref.path, collection)
            found == InOrder(Selected(st, collRef, <<field, operator, value>>), 1)
        IN
          IF ~isUnique /\ ~isTagField THEN Error("not an allowed key")
          ELSE IF isCollection
            THEN getRefLoop(collections, st, rest, isCollection,
                            QueryRef(collRef, field, operator, value), stack)
          ELSE IF found = <<>> THEN Error("record not found")
          ELSE getRefLoop(collections, st, rest, isCollection,
                          DocRef(Append(collRef, found[1])), stack)

\* getRef that checks a key against the configuration of the first collection
\* of the path
getRefRootKeyed(collections, st, path, isCollection) ==
  getRefLoop([k \in DOMAIN collections |->
                IF <<k[1]>> \in DOMAIN collections THEN collections[<<k[1]>>]
                ELSE collections[k]],
             st, path, isCollection, [kind |-> "firestore", path |-> <<>>],
             <<>>)

\* getRef(path, isCollection): a reference, an Error, or a thrown exception
getRef(collections, st, path, isCollection) ==
  getRefLoop(collections, st, path, isCollection,
             [kind |-> "firestore", path |-> <<>>], <<>>)

isDocRef(ref) == ref.kind = "doc"

\* the positions of the field=value specifiers for which getRef(path) runs
\* collRef.where(field, operator, value).limit(1).get() on the store: the
\* loop reaches the specifier, its key is allowed and no collection is asked
getRefQueries(collections, st, path, isCollection) ==
  {i \in 1..Len(path) :
     /\ i % 2 = 0
     /\ Len(SplitEq(path[i])) = 2
     /\ ~isCollection
     /\ getRef(collections, st, SubSeq(path, 1, i - 2), FALSE).kind
          \in {"firestore", "doc"}
     /\ LET r == getRef(collections, st, SubSeq(path, 1, i), FALSE)
        IN r.kind = "doc" \/ r = Error("record not found")}

-----------------------------------------------------------------------------
(* doc.ts: the document cache *)

MAX_CACHE_ENTRIES == 100

\* docCache is the Map in insertion order: a sequence of
\* [key, data, expiry, lastAccess]
CacheIndex(cache, key) ==
  IF \E i \in 1..Len(cache) : cache[i].key = key
  THEN CHOOSE i \in 1..Len(cache) : cache[i].key = key
  ELSE 0

\* Map.set: replaces the value of a present key in place, else appends
CacheSet(cache, entry) ==
  LET i == CacheIndex(cache, entry.key) IN
    IF i = 0 THEN Append(cache, entry) ELSE [cache EXCEPT ![i] = entry]

\* the n entries inserted first, whatever their lastAccess
OldestInserted(cache, n) == {i \in 1..Len(cache) : i <= n}

\* the positions of the entries a stable sort by lastAccess puts first
Oldest(cache, n) ==
  {i \in 1..Len(cache) :
     Cardinality({j \in 1..Len(cache) :
                    \/ cache[j].lastAccess < cache[i].lastAccess
                    \/ cache[j].lastAccess = cache[i].lastAccess /\ j < i}) < n}

Without(cache, drop, i) ==
  LET dropped == {cache[j].key : j \in drop}
      kept(entry) == entry.key \notin dropped
  IN SelectSeq(SubSeq(cache, i, Len(cache)), kept)

\* evictOldestCacheEntries: over the bound, drop the oldest ceil(20%)
evictOldestCacheEntries(cache) ==
  IF Len(cache) <= MAX_CACHE_ENTRIES THEN cache
  ELSE Without(cache, Oldest(cache, (MAX_CACHE_ENTRIES * 2 + 9) \div 10), 1)

-----------------------------------------------------------------------------
(* doc.ts: getDoc *)

PRIVILEGED_ROLES == {"admin", "developer", "owner"}

hasPrivilegedRole(roles) == roles \cap PRIVILEGED_ROLES # {}

\* DocResult
Ok(data) == [ok |-> TRUE, data |-> data]
Failed(reason, status) == [ok |-> FALSE, reason |-> reason, status |-> status]

\* opaqueError that hands the reason and the status to every caller
opaqueErrorDetailed(roles, reason, status) ==
  [ok |-> FALSE, reason |-> reason, status |-> status]

opaqueError(roles, reason, status) ==
  Failed(IF hasPrivilegedRole(roles) THEN reason ELSE "not found",
         IF hasPrivilegedRole(roles) THEN status ELSE 404)

\* { ...data, _path: path }
WithPath(data, path) ==
  [k \in (DOMAIN data) \cup {"_path"} |-> IF k = "_path" THEN path ELSE data[k]]

\* { ...filtered, _path: path } for the value a filter function returned:
\* an Error and undefined have no enumerable property to spread
SpreadWithPath(filtered, path) ==
  IF filtered.kind = "data" THEN WithPath(filtered.data, path)
  ELSE WithPath(<<>>, path)

\* CacheFresh that still serves an entry at the instant it expires
CacheFreshInclusive(cache, key, t) ==
  CacheIndex(cache, key) # 0 /\ cache[CacheIndex(cache, key)].expiry >= t

\* cacheLatencySeconds is in seconds, Date.now() in milliseconds
CacheFresh(cache, key, t) ==
  CacheIndex(cache, key) # 0 /\ cache[CacheIndex(cache, key)].expiry > t

\* whether getRef(path) runs a query on the store: the path holds a
\* field=value specifier on a key the collection allows
refQueries(collections, path) ==
  LET lookups == {i \in 1..Len(path) :
                    i % 2 = 0 /\ Len(SplitEq(path[i])) = 2}
  IN /\ lookups # {}
     /\ LET i == CHOOSE l \in lookups : \A o \in lookups : l <= o
            config == LookupConfig(collections,
                                   collectionPath(SubSeq(path, 1, i)))
        IN SplitEq(path[i])[1] \in config.unique \cup config.tagFields

\* getDoc: the DocResult, the cache it leaves and whether the store was
\* consulted (a query of getRef or ref.get()); storeOk = FALSE is a store
\* call that throws
getDoc(collections, st, cache, t, roles, method, path, storeOk) ==
  LET _collectionPath == collectionPath(path)
      config == LookupConfig(collections, _collectionPath)
      access == getMethodAccess(collections, _collectionPath, method, roles,
                                NoFields)
      cacheSeconds == config.cacheLatencySeconds
      ref == getRef(collections, st, path, FALSE)
      keep(r, consulted) ==
        [result |-> r, cache |-> cache, consulted |-> consulted]
      queried == refQueries(collections, path)
  IN
    IF access = NONE THEN keep(opaqueError(roles, "access denied", 403), FALSE)
    ELSE IF cacheSeconds # 0 /\ CacheFresh(cache, path, t)
      THEN LET i == CacheIndex(cache, path) IN
             [result |-> Ok(cache[i].data),
              cache |-> [cache EXCEPT ![i].lastAccess = t],
              consulted |-> FALSE]
    ELSE IF ref.kind = "throw"
      THEN keep(opaqueError(roles, "internal error", 500), queried)
    ELSE IF ref.kind = "Error"
      THEN keep(opaqueError(roles, ref.message, 404), queried)
    ELSE IF ~isDocRef(ref)
      THEN keep(opaqueError(roles, "invalid path for document", 400), queried)
    ELSE IF ~storeOk THEN keep(opaqueError(roles, "internal error", 500), TRUE)
    ELSE IF ref.path \notin DOMAIN st THEN keep(Failed("not found", 404), TRUE)
    ELSE
      LET raw == st[ref.path]
          filtered == IF access = ALL THEN Data(raw) ELSE ApplyAccess(access, raw)
          data == SpreadWithPath(filtered, path)
      IN
        IF filtered.kind = "Error"
          THEN keep(opaqueError(roles, filtered.message, 403), TRUE)
        ELSE [result |-> Ok(data),
              consulted |-> TRUE,
              cache |-> IF cacheSeconds = 0 THEN cache
                        ELSE CacheSet(evictOldestCacheEntries(cache),
                                      [key |-> path, data |-> data,
                                       expiry |-> t + cacheSeconds * 1000,
                                       lastAccess |-> t])]

-----------------------------------------------------------------------------
(* doc.ts: the /doc endpoint *)

Response(status, body) == [status |-> status, body |-> body]

\* validateWithSchema for the schemas of the model
validateWithSchema(data, schema) ==
  CASE schema = "nameRequired" -> "name" \in DOMAIN data
    [] schema = "PostSchema" -> {"title", "content"} \subseteq DOMAIN data
    [] OTHER -> TRUE

\* title.toLocaleLowerCase().replace(/[^\w]+/g, '-') on the titles of the
\* model
slug(title) ==
  CASE title = "First Post" -> "first-post"
    [] title = "Second Post" -> "second-post"
    [] OTHER -> title

\* config.validate for the hooks of the model
ApplyValidate(validate, data) ==
  CASE validate = "rejectInvalid" ->
         \* collections/index.ts test.validate
         \* the token rnd stands for the value of Math.random()
         IF Truthy(data, "isInvalid") THEN Error("invalid data")
         ELSE Data([k \in (DOMAIN data) \cup {"sekrit"} |->
                      IF k = "sekrit" THEN "rnd" ELSE data[k]])
    [] validate = "postValidate" ->
         \* blog.ts post.validate: a missing path is made from the title
         IF Truthy(data, "path") THEN Data(data)
         ELSE Data([k \in (DOMAIN data) \cup {"path"} |->
                      IF k = "path" THEN slug(data["title"]) ELSE data[k]])
    [] OTHER -> Data(data)

\* isUnique that counts the document being written as a duplicate
isUniqueCountingSelf(collections, st, path, field, data, existing) ==
  IF field \notin DOMAIN data THEN FALSE
  ELSE
    LET ref == getRef(collections, st, SubSeq(path, 1, Len(path) - 1), TRUE) IN
      IF ref.kind \in {"Error", "throw"} THEN FALSE
      ELSE Selected(st, ref.path, <<field, "==", data[field]>>) = {}

\* isUnique: no document other than `existing` holds the value; a value that
\* is missing (neither string nor number) is never unique
isUnique(collections, st, path, field, data, existing) ==
  IF field \notin DOMAIN data THEN FALSE
  ELSE
    LET ref == getRef(collections, st, SubSeq(path, 1, Len(path) - 1), TRUE) IN
      IF ref.kind \in {"Error", "throw"} THEN FALSE
      ELSE
        LET hits == InOrder(Selected(st, ref.path,
                                     <<field, "==", data[field]>>), 1)
            firstTwo == SubSeq(hits, 1, IF Len(hits) < 2 THEN Len(hits) ELSE 2)
        IN \A i \in 1..Len(firstTwo) : firstTwo[i] = existing[Len(existing)]

\* Candidate that merges the body into the existing document for every method
CandidateMerged(method, existing, body, t) ==
  LET _modified == ToString(t)
      _created == IF Truthy(existing, "_created") THEN existing["_created"]
                  ELSE _modified
      base == [k \in (DOMAIN existing) \cup (DOMAIN body) |->
                 IF k \in DOMAIN body THEN body[k] ELSE existing[k]]
  IN [k \in (DOMAIN base) \cup {"_created", "_modified"} |->
        CASE k = "_created" -> _created
          [] k = "_modified" -> _modified
          [] OTHER -> base[k]]

\* Candidate that lets the stamps of the request body stand
CandidateBodyStamps(method, existing, body, t) ==
  LET _modified == ToString(t)
      _created == IF Truthy(existing, "_created") THEN existing["_created"]
                  ELSE _modified
      base == IF method = "PATCH"
              THEN [k \in (DOMAIN existing) \cup (DOMAIN body) |->
                      IF k \in DOMAIN body THEN body[k] ELSE existing[k]]
              ELSE body
  IN [k \in (DOMAIN base) \cup {"_created", "_modified"} |->
        CASE k \in DOMAIN body -> body[k]
          [] k = "_created" -> _created
          [] k = "_modified" -> _modified
          [] OTHER -> base[k]]

\* the candidate document of a POST, PUT or PATCH
Candidate(method, existing, body, t) ==
  LET _modified == ToString(t)
      _created == IF Truthy(existing, "_created") THEN existing["_created"]
                  ELSE _modified
      base == IF method = "PATCH"
              THEN [k \in (DOMAIN existing) \cup (DOMAIN body) |->
                      IF k \in DOMAIN body THEN body[k] ELSE existing[k]]
              ELSE body
  IN [k \in (DOMAIN base) \cup {"_created", "_modified"} |->
        CASE k = "_created" -> _created
          [] k = "_modified" -> _modified
          [] OTHER -> base[k]]

\* the part of the handler before the switch on the method: a response when
\* the request ends there, else the resolved access and reference
docPrelude(collections, st, roles, method, path) ==
  LET _collectionPath == collectionPath(path)
      config == LookupConfig(collections, _collectionPath)
      access == getMethodAccess(collections, _collectionPath, method, roles,
                                NoFields)
      ref == getRef(collections, st, path, FALSE)
      end(status, body) == [ended |-> TRUE, response |-> Response(status, body)]
  IN
    IF path = <<>> THEN end(400, "missing path")
    ELSE IF Len(path) % 2 # 0 THEN end(400, "bad path")
    ELSE IF ~config.exists THEN end(404, "not found")
    ELSE IF access = NONE THEN end(403, "forbidden")
    ELSE IF ref.kind = "throw" THEN end(500, "")
    ELSE IF ref.kind = "Error" THEN end(404, ref.message)
    ELSE IF ~isDocRef(ref) THEN end(400, "invalid path")
    ELSE [ended |-> FALSE, access |-> access, ref |-> ref, config |-> config]

\* case 'GET'
docGET(collections, st, roles, path) ==
  LET pre == docPrelude(collections, st, roles, "GET", path) IN
    IF pre.ended THEN pre.response
    ELSE IF pre.ref.path \notin DOMAIN st THEN Response(404, "")
    ELSE
      LET raw == st[pre.ref.path]
          filtered == IF pre.access = ALL THEN Data(raw)
                      ELSE ApplyAccess(pre.access, raw)
      IN Response(200, SpreadWithPath(filtered, path))

\* mayDelete that accepts every write grant
mayDeleteAnyGrant(exists, access) == exists

\* doc.exists && access === ALL
mayDelete(exists, access) == exists /\ access = ALL

\* case 'DELETE': the response and the store it leaves
docDELETE(collections, st, roles, path, storeOk) ==
  LET pre == docPrelude(collections, st, roles, "DELETE", path) IN
    IF pre.ended THEN [response |-> pre.response, store |-> st]
    ELSE IF mayDelete(pre.ref.path \in DOMAIN st, pre.access)
      THEN IF storeOk
           THEN [response |-> Response(200, ""),
                 store |-> [r \in (DOMAIN st) \ {pre.ref.path} |-> st[r]]]
           ELSE [response |-> Response(500, "Delete failed"), store |-> st]
    ELSE [response |-> Response(403, "no doc"), store |-> st]

\* FailsUnique that lets every value pass
FailsUniqueNever(collections, st, path, config, data, ref) == FALSE

\* the first unique field of the configuration that fails isUnique, if any
FailsUnique(collections, st, path, config, data, ref) ==
  \E f \in config.unique : ~isUnique(collections, st, path, f, data, ref.path)

\* refusedByMethod that lets every method act on every document
refusedByMethodNever(method, exists) == "none"

\* the precondition of the method on the existence of the document
refusedByMethod(method, exists) ==
  IF exists /\ method = "POST" THEN "already exists"
  ELSE IF ~exists /\ method # "POST"
    THEN "cannot update non-existent document"
  ELSE "none"

\* the steps the configuration asks for that have run once `last` has
stepsThrough(config, last) ==
  (IF config.schema # "none" THEN <<"schema">> ELSE <<>>)
  \o (IF last # "schema" /\ config.validate # "none" THEN <<"validate">>
      ELSE <<>>)
  \o (IF last = "unique" /\ config.unique # {} THEN <<"unique">> ELSE <<>>)

\* the outcome of the checks before ref.set: the steps that ran, the response
\* of the one that failed (status 0 when none did) and the data to persist
Checks(steps, response, data) ==
  [steps |-> steps, response |-> response, data |-> data]

\* the validate hook, when there is one
validatedBy(config, data) ==
  IF config.validate = "none" THEN Data(data)
  ELSE ApplyValidate(config.validate, data)

\* the checks on the result of the validate hook: the hook's Error, then the
\* unique fields
checkValidated(collections, st, config, path, ref, validated) ==
  IF validated.kind # "data"
    THEN Checks(stepsThrough(config, "validate"),
                Response(400, "validation failed"), <<>>)
  ELSE IF FailsUnique(collections, st, path, config, validated.data, ref)
    THEN Checks(stepsThrough(config, "unique"),
                Response(400, "is required to exist and be unique"),
                validated.data)
  ELSE Checks(stepsThrough(config, "unique"), Response(0, ""), validated.data)

\* writeChecks that looks at the unique fields first, on the data as sent
writeChecksUniqueFirst(collections, st, config, path, ref, data) ==
  IF FailsUnique(collections, st, path, config, data, ref)
    THEN Checks(<<"unique">>,
                Response(400, "is required to exist and be unique"), data)
  ELSE IF config.schema # "none" /\ ~validateWithSchema(data, config.schema)
    THEN Checks(<<"unique", "schema">>,
                Response(400, "schema validation failed"), data)
  ELSE IF validatedBy(config, data).kind # "data"
    THEN Checks(<<"unique", "schema", "validate">>,
                Response(400, "validation failed"), data)
  ELSE Checks(<<"unique", "schema", "validate">>, Response(0, ""),
              validatedBy(config, data).data)

\* the checks before ref.set in the order schema, validate hook, unique
\* fields
writeChecks(collections, st, config, path, ref, data) ==
  IF config.schema # "none" /\ ~validateWithSchema(data, config.schema)
    THEN Checks(stepsThrough(config, "schema"),
                Response(400, "schema validation failed"), data)
  ELSE checkValidated(collections, st, config, path, ref,
                      validatedBy(config, data))

\* persist that looks for the unique name in the store once more before
\* ref.set
persistIfStillUnique(st, method, target, checks, storeOk) ==
  IF checks.response.status # 0
    THEN [response |-> checks.response, store |-> st, steps |-> checks.steps]
  ELSE IF \E r \in DOMAIN st :
            /\ r # target
            /\ SubSeq(r, 1, Len(r) - 1) = SubSeq(target, 1, Len(target) - 1)
            /\ "name" \in DOMAIN st[r] /\ "name" \in DOMAIN checks.data
            /\ st[r]["name"] = checks.data["name"]
    THEN [response |-> Response(400, "is required to exist and be unique"),
          store |-> st, steps |-> checks.steps]
  ELSE IF ~storeOk
    THEN [response |-> Response(500, "Save failed"), store |-> st,
          steps |-> Append(checks.steps, "persist")]
  ELSE [response |-> Response(200, IF method = "POST" THEN "created"
                                   ELSE "updated"),
        steps |-> Append(checks.steps, "persist"),
        store |-> [r \in (DOMAIN st) \cup {target} |->
                     IF r = target
                     THEN Restrict(checks.data, (DOMAIN checks.data) \ {"_path"})
                     ELSE st[r]]]

\* ref.set(data) after the checks, or the response of the check that failed
persist(st, method, target, checks, storeOk) ==
  IF checks.response.status # 0
    THEN [response |-> checks.response, store |-> st, steps |-> checks.steps]
  ELSE IF ~storeOk
    THEN [response |-> Response(500, "Save failed"), store |-> st,
          steps |-> Append(checks.steps, "persist")]
  ELSE [response |-> Response(200, IF method = "POST" THEN "created"
                                   ELSE "updated"),
        steps |-> Append(checks.steps, "persist"),
        store |-> [r \in (DOMAIN st) \cup {target} |->
                     IF r = target
                     THEN Restrict(checks.data, (DOMAIN checks.data) \ {"_path"})
                     ELSE st[r]]]

\* the switch case once the reference and the configuration are known
writeAt(collections, st, t, method, path, body, storeOk, config, ref) ==
  IF refusedByMethod(method, ref.path \in DOMAIN st) # "none"
    THEN [response |-> Response(403, refusedByMethod(method,
                                                     ref.path \in DOMAIN st)),
          store |-> st, steps |-> <<>>]
  ELSE persist(st, method, ref.path,
               writeChecks(collections, st, config, path, ref,
                           Candidate(method,
                                     IF ref.path \in DOMAIN st THEN st[ref.path]
                                     ELSE <<>>,
                                     body, t)),
               storeOk)

\* case 'POST', 'PUT', 'PATCH': the response, the store it leaves and the
\* steps that ran
docWRITE(collections, st, t, roles, method, path, body, storeOk) ==
  LET pre == docPrelude(collections, st, roles, method, path) IN
    IF pre.ended THEN [response |-> pre.response, store |-> st, steps |-> <<>>]
    ELSE writeAt(collections, st, t, method, path, body, storeOk, pre.config,
                 pre.ref)

-----------------------------------------------------------------------------
(* docs.ts: getRecords, getDocs and the /docs endpoint *)

\* order: '' or a field with an optional direction, as the regular
\* expression of getRecords splits it
NoOrder == [field |-> "", direction |-> ""]
OrderBy(field, direction) == [field |-> field, direction |-> direction]

\* the order of the store on the values of the model
ValueRank(v) ==
  CASE v = "n1" -> 1 [] v = "n2" -> 2 [] v = "n3" -> 3
    [] v = "2024-01-01" -> 1 [] v = "2024-02-01" -> 2 [] OTHER -> 0

\* ref.orderBy(field, direction): the documents that have the field, sorted
\* on it and then on their id, in the given direction
Ordered(st, path, ids, order) ==
  IF order.field = "" THEN InOrder(ids, 1)
  ELSE
    LET has == {id \in ids : order.field \in DOMAIN st[Append(path, id)]}
        key(id) == ValueRank(st[Append(path, id)][order.field]) * (Len(IdOrder) + 1)
                   + IdRank(id)
        before(a, b) == IF order.direction = "(desc)" THEN key(a) > key(b)
                        ELSE key(a) < key(b)
    IN [i \in 1..Cardinality(has) |->
          CHOOSE id \in has : Cardinality({o \in has : before(o, id)}) = i - 1]

\* getRecords: the selected documents in query order, cut at limit, reduced
\* to the selected fields, each with its _path
getRecords(collections, st, path, limit, order, fields) ==
  LET ref == getRef(collections, st, path, TRUE) IN
    IF ref.kind # "collection" /\ ref.kind # "query" THEN <<>>
    ELSE
      LET ids == Ordered(st, ref.path, Selected(st, ref.path, ref.where), order)
          n == IF Len(ids) < limit THEN Len(ids) ELSE limit
          select(data) == IF fields.given THEN Restrict(data, Range(fields.fields))
                          ELSE data
      IN [i \in 1..n |->
            WithPath(select(st[Append(ref.path, ids[i])]),
                     Append(collectionPath(path), ids[i]))]

\* NotErrors that keeps every filter result, Errors included
NotErrorsKept(found) == found

\* found.filter((r) => !(r instanceof Error)) on the filter results
RECURSIVE NotErrors(_)
NotErrors(found) ==
  IF found = <<>> THEN <<>>
  ELSE (IF Head(found).kind = "Error" THEN <<>> ELSE <<Head(found)>>)
       \o NotErrors(Tail(found))

\* the records a LIST yields under a grant: filter results for a function
Listed(access, records) ==
  IF access = ALL THEN [i \in 1..Len(records) |-> Data(records[i])]
  ELSE NotErrors([i \in 1..Len(records) |-> ApplyAccess(access, records[i])])

\* whether a LIST under the grant calls getRecords, which queries the store
listQueries(collections, roles, path, fields) ==
  getMethodAccess(collections, collectionPath(path), "LIST", roles, fields)
    # NONE

\* getDocs that lists every record when the caller has no list grant
getDocsUnchecked(collections, st, roles, path, limit, fields, order) ==
  LET access == getMethodAccess(collections, collectionPath(path), "LIST",
                                roles, fields)
  IN Listed(IF access = NONE THEN ALL ELSE access,
            getRecords(collections, st, path, limit, order, fields))

\* getDocs: the list it returns
getDocs(collections, st, roles, path, limit, fields, order) ==
  LET access == getMethodAccess(collections, collectionPath(path), "LIST",
                                roles, fields)
  IN IF access = NONE THEN <<>>
     ELSE Listed(access,
                 getRecords(collections, st, path, limit, order, fields))

\* the /docs handler: its response
docs(collections, st, roles, path, limit, fields, order) ==
  LET access == getMethodAccess(collections, collectionPath(path), "LIST",
                                roles, fields)
  IN IF access = NONE THEN Response(403, <<>>)
     ELSE Response(200, Listed(access, getRecords(collections, st, path, limit,
                                                  order, fields)))

-----------------------------------------------------------------------------
(* The system: registry, store and requests *)

\* ticks of the clock before it stops, and store mutations before writes stop
MaxTicks == 2
MaxWrites == 1

\* store mutations in a run of writes
MaxEdits == 2

\* one tick of the clock, in milliseconds
TickMs == 1000

PublicFn == AccessConfig(AccessFilterFunc("publishedOnly"), NONE,
                         AccessFilterFunc("publishedOnly"))
NameOnly == FieldAccessMap([name |-> "ALL"])

\* `drafts` (access.test.ts) with a cache and an editor limited to the name;
\* `posts` (access.test.ts) with a unique name; `role` (collections/role.ts);
\* `locked` (access.test.ts); `articles` with the write grants of the
\* security model documentation, a schema, a validate hook and a unique name
Registry ==
  (<<"drafts">> :>
     CollectionConfig(<<[role |-> "public", config |-> PublicFn],
                        [role |-> "editor",
                         config |-> AccessConfig(NameOnly, NONE, NameOnly)],
                        [role |-> "author",
                         config |-> AccessConfig(ALL, ALL, ALL)]>>,
                      {}, {}, 2)) @@
  (<<"posts">> :>
     CollectionConfig(<<[role |-> "public",
                         config |-> AccessConfig(ALL, NONE, ALL)],
                        [role |-> "author",
                         config |-> AccessConfig(NONE, ALL, NONE)]>>,
                      {"name"}, {}, 0)) @@
  (<<"role">> :>
     CollectionConfig(<<[role |-> "admin",
                         config |-> AccessConfig(ALL, ALL, ALL)]>>,
                      {"name"}, {}, 0)) @@
  (<<"locked">> :> NoAccessConfig) @@
  (<<"articles">> :>
     [CollectionConfig(<<[role |-> "public",
                          config |-> AccessConfig(ALL, NONE, ALL)],
                         [role |-> "editor",
                          config |-> AccessConfig(NONE, NameOnly, NONE)],
                         [role |-> "author",
                          config |-> AccessConfig(NONE,
                                                  AccessFilterFunc("ownPosts"),
                                                  NONE)],
                         [role |-> "admin",
                          config |-> AccessConfig(ALL, ALL, ALL)]>>,
                       {"name"}, {}, 0)
        EXCEPT !.schema = "nameRequired", !.validate = "rejectInvalid"])

\* the seeded store
Seed ==
  (<<"drafts", "d1">> :> [name |-> "n1", email |-> "e1"]) @@
  (<<"drafts", "d2">> :> [name |-> "n2", published |-> "true"]) @@
  (<<"posts", "d1">> :> [name |-> "n1", email |-> "e1"]) @@
  (<<"posts", "d2">> :> [name |-> "n2"]) @@
  (<<"role", "d1">> :> [name |-> "owner"]) @@
  (<<"articles", "d1">> :> [name |-> "n1", author |-> "u1"]) @@
  (<<"articles", "d2">> :> [name |-> "n2", author |-> "u2"])

Callers == {anonymousUser, {"editor"}, {"author"}, {"admin"}}

DocPaths ==
  { <<"drafts", "d1">>, <<"drafts", "d2">>, <<"drafts", "d3">>,
    <<"posts", "d2">>, <<"posts", "d3">>, <<"posts", "name=n2">>,
    <<"posts", "name=zz">>, <<"posts", "email=e1">>,
    <<"role", "d1">>, <<"role", "d3">>, <<"locked", "d1">>,
    <<"nowhere", "d1">>, <<"drafts">>, <<>> }

ListPaths == {<<"drafts">>, <<"posts">>, <<"role">>, <<"locked">>,
              <<"posts", "name=n2">>, <<"posts", "email=e1">>}

Bodies == {[name |-> "n2"], [name |-> "n3", published |-> "true"]}

Limits == {1, 10}

ListFields == {NoFields, Fields(<<"name">>)}

Orders == {NoOrder, OrderBy("name", "(desc)")}

Init ==
  /\ COLLECTIONS = Registry
  /\ store = Seed
  /\ docCache = <<>>
  /\ now = 0
  /\ writes = 0
  /\ res = [op |-> "none"]
  /\ rateLimitMap = <<>>
  /\ lastCleanup = 0
  /\ admitted = <<0, 0>>
  /\ pending = <<>>

\* Date.now() advances
Tick ==
  /\ res.op = "none"
  /\ now < MaxTicks * TickMs
  /\ now' = now + TickMs
  /\ UNCHANGED <<COLLECTIONS, store, docCache, writes, res>>
  /\ UNCHANGED <<rateVars, pending>>

\* a call of getDoc inside a request of the given method
GetDoc ==
  /\ res.op = "none"
  /\ \E roles \in Callers, method \in {"GET", "POST"}, path \in DocPaths \ {<<>>},
        storeOk \in BOOLEAN :
       LET r == getDoc(COLLECTIONS, store, docCache, now, roles, method, path,
                       storeOk)
       IN /\ res' = [op |-> "getDoc", roles |-> roles, method |-> method,
                     path |-> path, storeOk |-> storeOk, store |-> store,
                     cache |-> docCache, now |-> now,
                     consulted |-> r.consulted, result |-> r.result]
          /\ docCache' = r.cache
          /\ UNCHANGED <<COLLECTIONS, store, now, writes>>
  /\ UNCHANGED <<rateVars, pending>>

\* a GET on /doc
DocGet ==
  /\ res.op = "none"
  /\ \E roles \in Callers, path \in DocPaths :
       /\ res' = [op |-> "doc", roles |-> roles, method |-> "GET",
                  path |-> path, store |-> store,
                  response |-> docGET(COLLECTIONS, store, roles, path)]
       /\ UNCHANGED <<COLLECTIONS, store, docCache, now, writes>>
  /\ UNCHANGED <<rateVars, pending>>

\* a DELETE on /doc
DocDelete ==
  /\ res.op = "none"
  /\ writes < MaxWrites
  /\ \E roles \in Callers, path \in DocPaths, storeOk \in BOOLEAN :
       LET r == docDELETE(COLLECTIONS, store, roles, path, storeOk) IN
         /\ res' = [op |-> "doc", roles |-> roles, method |-> "DELETE",
                    path |-> path, store |-> store, response |-> r.response]
         /\ store' = r.store
         /\ writes' = IF r.store # store THEN writes + 1 ELSE writes
         /\ UNCHANGED <<COLLECTIONS, docCache, now>>
  /\ UNCHANGED <<rateVars, pending>>

\* a POST, PUT or PATCH on /doc
DocWrite ==
  /\ res.op = "none"
  /\ writes < MaxWrites
  /\ \E roles \in Callers, method \in {"POST", "PUT", "PATCH"},
        path \in DocPaths, body \in Bodies, storeOk \in BOOLEAN :
       LET r == docWRITE(COLLECTIONS, store, now, roles, method, path, body,
                         storeOk)
       IN
         /\ res' = [op |-> "doc", roles |-> roles, method |-> method,
                    path |-> path, body |-> body, store |-> store,
                    response |-> r.response]
         /\ store' = r.store
         /\ writes' = IF r.store # store THEN writes + 1 ELSE writes
         /\ UNCHANGED <<COLLECTIONS, docCache, now>>
  /\ UNCHANGED <<rateVars, pending>>

\* a call of getDocs
GetDocs ==
  /\ res.op = "none"
  /\ \E roles \in Callers, path \in ListPaths, limit \in Limits,
        fields \in ListFields, order \in Orders :
       /\ res' = [op |-> "getDocs", roles |-> roles, path |-> path,
                  limit |-> limit, fields |-> fields, order |-> order,
                  store |-> store, collections |-> COLLECTIONS,
                  queried |-> listQueries(COLLECTIONS, roles, path, fields),
                  result |-> getDocs(COLLECTIONS, store, roles, path, limit,
                                     fields, order)]
       /\ COLLECTIONS' = RegistryAfter(COLLECTIONS, collectionPath(path),
                                       "LIST", roles, fields)
       /\ UNCHANGED <<store, docCache, now, writes>>
  /\ UNCHANGED <<rateVars, pending>>

\* a GET on /docs
Docs ==
  /\ res.op = "none"
  /\ \E roles \in Callers, path \in ListPaths, limit \in Limits,
        fields \in ListFields, order \in Orders :
       /\ res' = [op |-> "docs", roles |-> roles, path |-> path,
                  limit |-> limit, fields |-> fields, order |-> order,
                  store |-> store, collections |-> COLLECTIONS,
                  queried |-> listQueries(COLLECTIONS, roles, path, fields),
                  response |-> docs(COLLECTIONS, store, roles, path, limit,
                                    fields, order)]
       /\ COLLECTIONS' = RegistryAfter(COLLECTIONS, collectionPath(path),
                                       "LIST", roles, fields)
       /\ UNCHANGED <<store, docCache, now, writes>>
  /\ UNCHANGED <<rateVars, pending>>

\* requests that write: paths and bodies
WritePaths ==
  { <<"articles", "d1">>, <<"articles", "d2">>, <<"articles", "d3">>,
    <<"posts", "d1">>, <<"posts", "d3">>, <<"role", "d1">> }

WriteBodies ==
  { [name |-> "n1", author |-> "u1"], [name |-> "n3", author |-> "u2"],
    [author |-> "u1"], [name |-> "n2", isInvalid |-> "true"],
    [isInvalid |-> "true"], [name |-> "n3", email |-> "e1"] }

\* a POST, PUT or PATCH on /doc, with the steps it ran
Write ==
  /\ res.op = "none"
  /\ writes < MaxEdits
  /\ \E roles \in Callers, method \in {"POST", "PUT", "PATCH"},
        path \in WritePaths, body \in WriteBodies, storeOk \in BOOLEAN :
       LET r == docWRITE(COLLECTIONS, store, now, roles, method, path, body,
                         storeOk)
       IN
         /\ res' = [op |-> "write", roles |-> roles, method |-> method,
                    path |-> path, body |-> body, storeOk |-> storeOk,
                    store |-> store, now |-> now, steps |-> r.steps,
                    response |-> r.response]
         /\ store' = r.store
         /\ writes' = IF r.store # store THEN writes + 1 ELSE writes
         /\ UNCHANGED <<COLLECTIONS, docCache, now>>
  /\ UNCHANGED <<rateVars, pending>>

\* a DELETE on /doc
Delete ==
  /\ res.op = "none"
  /\ writes < MaxEdits
  /\ \E roles \in Callers, path \in WritePaths, storeOk \in BOOLEAN :
       LET r == docDELETE(COLLECTIONS, store, roles, path, storeOk) IN
         /\ res' = [op |-> "delete", roles |-> roles, method |-> "DELETE",
                    path |-> path, storeOk |-> storeOk, store |-> store,
                    response |-> r.response]
         /\ store' = r.store
         /\ writes' = IF r.store # store THEN writes + 1 ELSE writes
         /\ UNCHANGED <<COLLECTIONS, docCache, now>>
  /\ UNCHANGED <<rateVars, pending>>

\* writes and deletions through /doc
NextWrite ==
  \/ Write
  \/ Delete
  \/ Done

SpecWrite == Init /\ [][NextWrite]_vars

\* documents of the cached collection `drafts` that are read one after the
\* other
MaxDocs == 102

ScanStore ==
  [r \in {<<"drafts", ToString(k)>> : k \in 1..MaxDocs} |->
     [name |-> "n1", published |-> "true"]]

ScanPath(k) == <<"drafts", ToString(k)>>

\* how many documents of the scan the cache has seen: the largest k whose
\* path is cached
Scanned(cache) ==
  LET ks == {k \in 1..MaxDocs : CacheIndex(cache, ScanPath(k)) # 0}
  IN IF ks = {} THEN 0 ELSE CHOOSE k \in ks : \A o \in ks : o <= k

InitScan ==
  /\ COLLECTIONS = Registry
  /\ store = ScanStore
  /\ docCache = <<>>
  /\ now = 0
  /\ writes = 0
  /\ res = [op |-> "none"]
  /\ rateLimitMap = <<>>
  /\ lastCleanup = 0
  /\ admitted = <<0, 0>>
  /\ pending = <<>>

\* a getDoc of an author for the next document of the scan, or again for the
\* one read last
GetDocScan ==
  /\ res.op = "none"
  /\ \E k \in {Scanned(docCache), Scanned(docCache) + 1} \cap (1..MaxDocs) :
       LET r == getDoc(COLLECTIONS, store, docCache, now, {"author"}, "GET",
                       ScanPath(k), TRUE)
       IN /\ res' = [op |-> "getDoc", roles |-> {"author"}, method |-> "GET",
                     path |-> ScanPath(k), storeOk |-> TRUE, store |-> store,
                     cache |-> docCache, now |-> now,
                     consulted |-> r.consulted, result |-> r.result]
          /\ docCache' = r.cache
          /\ UNCHANGED <<COLLECTIONS, store, now, writes>>
  /\ UNCHANGED <<rateVars, pending>>

\* a scan of a cached collection larger than the cache, within the latency
NextScan ==
  \/ GetDocScan
  \/ Done

SpecScan == InitScan /\ [][NextScan]_vars

\* single-document reads, with the cache, the clock and deletions
NextRead ==
  \/ Tick
  \/ GetDoc
  \/ DocGet
  \/ DocDelete
  \/ Done

SpecRead == Init /\ [][NextRead]_vars

\* listings, with writes and deletions
NextList ==
  \/ GetDocs
  \/ Docs
  \/ DocWrite
  \/ DocDelete
  \/ Done

SpecList == Init /\ [][NextList]_vars

-----------------------------------------------------------------------------
(* Properties of the access resolver, checked under SpecAccess *)

IsCall == res.op = "getMethodAccess"

\* the configuration, category and declared access map of the recorded call
CallConfig == LookupConfig(res.collections, res.collectionPath)
CallResolves ==
  IsCall /\ CallConfig.exists /\ CallConfig.hasAccess
         /\ res.method \in DOMAIN accessMap
CallType == accessMap[res.method]
CallAccess == CallConfig.access

\* the grant an entry declares for the category of the call
Declared(i) == CallAccess[i].config[CallType]

\* the entries of held roles that declare a grant for the category
Matched ==
  {i \in 1..Len(CallAccess) : CallAccess[i].role \in res.roles /\ Declared(i) # NONE}

\* the grant the public entry declares for the category, NONE if none
PublicGrant ==
  IF \E i \in 1..Len(CallAccess) : CallAccess[i].role = "public"
  THEN Declared(CHOOSE i \in 1..Len(CallAccess) : CallAccess[i].role = "public")
  ELSE NONE

\* what a caller is handed for a declared grant when no fields are requested
Handed(grant) ==
  IF grant.kind = "object" THEN FieldFilterFunc(grant.map) ELSE grant

\* documents the returned filter functions are tried on
SampleFields == {"_path", "name", "email", "key"}
DocSamples == UNION {[S -> {"v"}] : S \in SUBSET SampleFields}

\* C1: getMethodAccess returns undefined for every method, role-set and
\* requested-field list when the collection path is not a key of the registry
\* or its configuration has no access map; the lookup is by exact path, so
\* the configuration of `post` grants nothing on `post/comment`.
C1_DefaultDeny ==
  IsCall =>
    ((res.collectionPath \notin DOMAIN res.collections
      \/ ~res.collections[res.collectionPath].hasAccess)
     => res.result = NONE)

\* C1 witness: a GET on post/comment by an admin is denied although `post`
\* grants admin everything
C1_Witness ==
  /\ IsCall
  /\ res.collectionPath = <<"post", "comment">>
  /\ res.method = "GET"
  /\ res.roles = {"admin"}
  /\ res.collections[<<"post">>].access =
       <<[role |-> "admin", config |-> AccessConfig(ALL, ALL, ALL)]>>
  /\ res.result = NONE

\* C2: when the caller holds two or more roles that declare a grant for the
\* category, the call returns the grant of the one declared last, whatever
\* the earlier ones grant (no union, no most-permissive rule).
C2_LastDeclaredWins ==
  (CallResolves /\ Cardinality(Matched) >= 2) =>
    LET B == CHOOSE i \in Matched : \A j \in Matched : j <= i IN
      /\ ~res.filterFields.given => res.result = Handed(Declared(B))
      /\ res.result = getMethodAccess(res.collections, res.collectionPath,
                                      res.method, {CallAccess[B].role},
                                      res.filterFields)

\* C2 witness: admin (ALL) is declared before author (field map), the caller
\* holds both and gets the field filter of author
C2_Witness ==
  /\ CallResolves
  /\ res.method = "GET"
  /\ ~res.filterFields.given
  /\ res.roles = {"admin", "author"}
  /\ Len(CallAccess) = 2
  /\ CallAccess[1] = [role |-> "admin", config |-> AccessConfig(ALL, ALL, ALL)]
  /\ CallAccess[2].role = "author"
  /\ Declared(2) = FieldAccessMap(NameEmail)
  /\ res.result = FieldFilterFunc(NameEmail)

\* C3: if no role the caller holds declares a grant for the category, the
\* call returns what the public entry declares for it, as for an anonymous
\* caller, and undefined only if public declares none.
C3_PublicFloor ==
  (CallResolves /\ Matched = {}) =>
    /\ ~res.filterFields.given => res.result = Handed(PublicGrant)
    /\ res.result = getMethodAccess(res.collections, res.collectionPath,
                                    res.method, anonymousUser,
                                    res.filterFields)
    /\ (res.result = NONE) <=> (PublicGrant = NONE)

\* C3 witness: an author-only caller reads a collection whose only read
\* grant is the one of public
C3_Witness ==
  /\ CallResolves
  /\ res.method = "GET"
  /\ res.roles = {"author"}
  /\ ~res.filterFields.given
  /\ Len(CallAccess) = 2
  /\ CallAccess[1] = [role |-> "public", config |-> AccessConfig(ALL, ALL, ALL)]
  /\ CallAccess[2] = [role |-> "author", config |-> AccessConfig(NONE, ALL, NONE)]
  /\ res.result = ALL

\* C4: a held role that is not a key of the access map contributes nothing:
\* the result is that of the role-set without it, and a caller none of whose
\* roles is a key gets what public declares (nothing, if public is no key).
C4_UndeclaredRoleContributesNothing ==
  CallResolves =>
    LET keys == {CallAccess[i].role : i \in 1..Len(CallAccess)} IN
      /\ \A r \in res.roles \ keys :
           res.result = getMethodAccess(res.collections, res.collectionPath,
                                        res.method, res.roles \ {r},
                                        res.filterFields)
      /\ (res.roles \cap keys = {} /\ "public" \notin keys) => res.result = NONE

\* C4 witness: a developer is denied on a collection that grants only admin
C4_Witness ==
  /\ CallResolves
  /\ res.method = "GET"
  /\ res.roles = {"developer"}
  /\ CallAccess = <<[role |-> "admin", config |-> AccessConfig(ALL, ALL, ALL)]>>
  /\ res.result = NONE

\* the fields other than _path a returned filter function lets through
Exposed(access) ==
  UNION {DOMAIN ApplyAccess(access, d).data : d \in DocSamples} \ {"_path"}

\* C6: with a list of requested fields, the grant returned for a declared
\* ALL or field map exposes no field outside the requested list other than
\* _path.
C6_RequestedFieldsBoundExposure ==
  (CallResolves /\ res.filterFields.given /\ res.result.kind = "function"
     /\ res.result.fn = "fieldFilter") =>
    Exposed(res.result) \subseteq Range(res.filterFields.fields)

-----------------------------------------------------------------------------
(* Properties of single-document reads, checked under SpecRead *)

IsGetDoc == res.op = "getDoc"
IsDocGet == res.op = "doc" /\ res.method = "GET"

\* the read grant of the caller of the recorded request
ReadGrant ==
  getMethodAccess(COLLECTIONS, collectionPath(res.path), "GET", res.roles,
                  NoFields)

\* the grant getDoc resolved: under the method of the enclosing request
GetDocGrant ==
  getMethodAccess(COLLECTIONS, collectionPath(res.path), res.method, res.roles,
                  NoFields)

\* the stored document the path of the recorded request addresses, if any
Addressed == getRef(COLLECTIONS, res.store, res.path, FALSE)
AddressesDoc ==
  /\ res.path # <<>>
  /\ Len(res.path) % 2 = 0
  /\ Addressed.kind = "doc"
  /\ Addressed.path \in DOMAIN res.store
AddressedData == res.store[Addressed.path]

\* the caller's grant is a filter function that returns an Error for the
\* addressed document
DeniedByFilter(grant) ==
  /\ AddressesDoc
  /\ grant.kind = "function"
  /\ ApplyAccess(grant, AddressedData).kind = "Error"

StoreWithout(st, ref) == [r \in (DOMAIN st) \ {ref} |-> st[r]]

\* C5: a field-map grant is returned as a function that maps a document to
\* exactly _path plus the fields the map marks ALL, and a getDoc read under
\* such a grant returns only _path and the permitted fields.
C5_FieldMapProjection ==
  /\ \A key \in DOMAIN COLLECTIONS, roles \in Callers, method \in REST_METHOD :
       LET config == COLLECTIONS[key]
           e == IF config.hasAccess
                THEN ResolvedEntry(config.access, accessMap[method], roles)
                ELSE 0
           declared == IF e = 0 THEN NONE
                       ELSE config.access[e].config[accessMap[method]]
           grant == getMethodAccess(COLLECTIONS, key, method, roles, NoFields)
       IN declared.kind = "object" =>
            /\ grant.kind = "function"
            /\ \A d \in DocSamples :
                 LET out == ApplyAccess(grant, d) IN
                   /\ out.kind = "data"
                   /\ DOMAIN out.data =
                        (DOMAIN d) \cap ({"_path"} \cup
                           {k \in DOMAIN declared.map : declared.map[k] = "ALL"})
                   /\ \A k \in DOMAIN out.data : out.data[k] = d[k]
  /\ (IsGetDoc /\ res.result.ok /\ GetDocGrant.kind = "function"
        /\ GetDocGrant.fn = "fieldFilter") =>
       DOMAIN res.result.data \subseteq
         {"_path"} \cup {k \in DOMAIN GetDocGrant.map : GetDocGrant.map[k] = "ALL"}

\* C7: for a caller without admin, developer or owner, every non-ok result
\* of getDoc is {ok: false, reason: 'not found', status: 404}, and where the
\* caller was denied an existing document the same call on a store without
\* that document gives the identical result.
C7_OpaqueNotFound ==
  (IsGetDoc /\ ~hasPrivilegedRole(res.roles) /\ ~res.result.ok) =>
    /\ res.result = [ok |-> FALSE, reason |-> "not found", status |-> 404]
    /\ AddressesDoc =>
         getDoc(COLLECTIONS, StoreWithout(res.store, Addressed.path), res.cache,
                res.now, res.roles, res.method, res.path, res.storeOk).result
           = res.result

\* C7 witness: an anonymous caller is refused an existing unpublished draft
\* by the filter function of public
C7_Witness ==
  /\ IsGetDoc
  /\ res.roles = anonymousUser
  /\ res.method = "GET"
  /\ res.path = <<"drafts", "d1">>
  /\ res.storeOk
  /\ DeniedByFilter(GetDocGrant)
  /\ res.result = [ok |-> FALSE, reason |-> "not found", status |-> 404]

\* C8: an unauthenticated GET on /doc for a document of a configured
\* collection on which the caller has no read grant is answered 404.
C8_DocGetDeniedIs404 ==
  (IsDocGet /\ res.roles = anonymousUser /\ res.path # <<>>
     /\ Len(res.path) % 2 = 0
     /\ LookupConfig(COLLECTIONS, collectionPath(res.path)).exists
     /\ ReadGrant = NONE) =>
    res.response.status = 404

\* C9: a read of an existing document for which the caller's filter function
\* returns an Error yields no success and no data: getDoc returns a non-ok
\* result and the GET on /doc a non-2xx status; under ALL the read returns
\* the full document.
C9_FilterErrorDeniesRead ==
  /\ (IsGetDoc /\ res.storeOk /\ DeniedByFilter(GetDocGrant)) => ~res.result.ok
  /\ (IsDocGet /\ DeniedByFilter(ReadGrant)) =>
       ~(res.response.status \in 200..299)
  /\ (IsDocGet /\ AddressesDoc /\ ReadGrant = ALL) =>
       res.response = Response(200, WithPath(AddressedData, res.path))

-----------------------------------------------------------------------------
(* Properties of listings, checked under SpecList *)

IsList == res.op \in {"getDocs", "docs"}

ListGrant ==
  getMethodAccess(res.collections, collectionPath(res.path), "LIST", res.roles,
                  res.fields)

\* the records the query of the recorded listing yields
Queried ==
  getRecords(res.collections, res.store, res.path, res.limit, res.order,
             res.fields)

\* the list the recorded listing produced
ListResult == IF res.op = "getDocs" THEN res.result ELSE res.response.body

C11_NoListGrantListsNothing ==
  (IsList /\ ListGrant = NONE) =>
    /\ ~res.queried
    /\ res.op = "getDocs" => res.result = <<>>
    /\ res.op = "docs" => res.response = Response(403, <<>>)

\* C11 witness: the anonymous listing of `role`, which holds a document and
\* grants list to admin only
C11_Witness ==
  /\ res.op = "getDocs"
  /\ res.roles = anonymousUser
  /\ res.path = <<"role">>
  /\ <<"role", "d1">> \in DOMAIN res.store
  /\ ListGrant = NONE
  /\ res.result = <<>>

-----------------------------------------------------------------------------
(* Properties of writes and deletions, checked under SpecWrite *)

IsWrite == res.op = "write"
IsDelete == res.op = "delete"

\* the write grant of the caller of the recorded request
WriteGrant ==
  getMethodAccess(COLLECTIONS, collectionPath(res.path), res.method, res.roles,
                  NoFields)

WriteConfig == LookupConfig(COLLECTIONS, collectionPath(res.path))

\* the recorded request passes the checks on the path, the configuration and
\* the grant, and its path resolves to a document reference
Reaches ==
  /\ res.path # <<>>
  /\ Len(res.path) % 2 = 0
  /\ WriteConfig.exists
  /\ WriteGrant # NONE
  /\ Addressed.kind = "doc"

\* the existing document, or the empty record
Existing == IF AddressesDoc THEN AddressedData ELSE <<>>

\* the fields the request provides for the document, a PATCH laid over the
\* existing ones
Provided ==
  IF res.method = "PATCH"
  THEN [k \in (DOMAIN Existing) \cup (DOMAIN res.body) |->
          IF k \in DOMAIN res.body THEN res.body[k] ELSE Existing[k]]
  ELSE res.body

\* the method is allowed on the addressed path: POST on none, PUT and PATCH
\* on an existing document
MethodFits == (res.method = "POST") <=> ~AddressesDoc

\* the stores before and after agree everywhere but at the addressed path
OnlyTargetChanged ==
  \A r \in ((DOMAIN store) \cup (DOMAIN res.store)) \ {Addressed.path} :
    r \in DOMAIN store /\ r \in DOMAIN res.store /\ store[r] = res.store[r]

\* another document of the collection holds the value for the field
HeldByOther(f, v) ==
  \E r \in DOMAIN res.store :
    /\ r # Addressed.path
    /\ collectionPath(r) = collectionPath(res.path)
    /\ f \in DOMAIN res.store[r]
    /\ res.store[r][f] = v

UniqueMessage == "is required to exist and be unique"

\* C12: a DELETE on /doc removes the document only if it exists and the
\* caller's write grant is exactly ALL; under a field map or a filter
\* function, or for a missing document, it is answered 403 and the store is
\* unchanged.
C12_DeleteNeedsAllGrant ==
  IsDelete =>
    /\ store # res.store =>
         /\ AddressesDoc
         /\ WriteGrant = ALL
         /\ store = StoreWithout(res.store, Addressed.path)
    /\ (Reaches /\ (WriteGrant.kind = "function" \/ ~AddressesDoc)) =>
         /\ res.response.status = 403
         /\ store = res.store

\* C12 witness: an editor, whose write grant on articles is a field map, is
\* refused the deletion of an existing article
C12_Witness ==
  /\ IsDelete
  /\ res.roles = {"editor"}
  /\ res.path = <<"articles", "d1">>
  /\ res.storeOk
  /\ AddressesDoc
  /\ WriteGrant = FieldFilterFunc(NameOnly.map)
  /\ res.response.status = 403
  /\ store = res.store

\* C13: under a write grant that is a filter function, a POST, PUT or PATCH
\* is persisted only if the function does not return an Error for the
\* document being written; when it does, the write is rejected and the store
\* is unchanged.
C13_WriteFilterGuardsWrites ==
  (IsWrite /\ Reaches /\ WriteGrant.kind = "function"
     /\ WriteGrant.fn # "fieldFilter"
     /\ ApplyAccess(WriteGrant, Provided).kind = "Error") =>
    /\ ~(res.response.status \in 200..299)
    /\ store = res.store

\* no two documents of a collection hold the same value for a unique field
UniqueHolds(st) ==
  \A a \in DOMAIN st, b \in DOMAIN st :
    \A f \in LookupConfig(COLLECTIONS, collectionPath(a)).unique :
      (a # b /\ collectionPath(a) = collectionPath(b)
         /\ f \in DOMAIN st[a] /\ f \in DOMAIN st[b]) =>
        st[a][f] # st[b][f]

\* C14: from a collection without duplicates, after any sequence of
\* POST/PUT/PATCH requests no two documents of the collection hold the same
\* value for a unique field; a write whose value for a unique field is held
\* by another document, or is missing, is answered 400 and stores nothing.
C14_UniqueFieldsStayUnique ==
  /\ UniqueHolds(store)
  /\ (IsWrite /\ Reaches /\ MethodFits
        /\ \E f \in WriteConfig.unique :
             \/ f \notin DOMAIN Provided
             \/ HeldByOther(f, Provided[f])) =>
       /\ res.response.status = 400
       /\ store = res.store

\* C14 witness: after an article named n3 was created, a PUT that renames
\* another article to n3 is answered 400
C14_Witness ==
  /\ IsWrite
  /\ writes = 1
  /\ res.method = "PUT"
  /\ res.path = <<"articles", "d1">>
  /\ <<"articles", "d3">> \in DOMAIN res.store
  /\ "name" \in DOMAIN Provided
  /\ Provided["name"] = "n3"
  /\ HeldByOther("name", "n3")
  /\ res.response = Response(400, UniqueMessage)
  /\ store = res.store

\* C15: a PUT or PATCH that leaves the unique field at the value the document
\* already holds passes the uniqueness check, the match on the document
\* itself not counting as a duplicate; a match on a document with another id
\* fails it.
C15_UniqueExcludesSelf ==
  (IsWrite /\ res.method \in {"PUT", "PATCH"} /\ "unique" \in Range(res.steps)) =>
    /\ (\A f \in WriteConfig.unique :
          /\ f \in DOMAIN Provided
          /\ f \in DOMAIN Existing
          /\ Provided[f] = Existing[f]
          /\ ~HeldByOther(f, Provided[f])) =>
         /\ res.response.body # UniqueMessage
         /\ "persist" \in Range(res.steps)
    /\ (\E f \in WriteConfig.unique :
          f \in DOMAIN Provided /\ HeldByOther(f, Provided[f])) =>
         res.response = Response(400, UniqueMessage)

\* C15 witness: an admin PUTs the article d1 with the name it already has
C15_Witness ==
  /\ IsWrite
  /\ res.roles = {"admin"}
  /\ res.method = "PUT"
  /\ res.path = <<"articles", "d1">>
  /\ res.storeOk
  /\ AddressesDoc
  /\ "name" \in DOMAIN Provided
  /\ Provided["name"] = Existing["name"]
  /\ res.response = Response(200, "updated")
  /\ store # res.store

\* C16: a POST to a path whose document exists, and a PUT or PATCH to a path
\* whose document does not, fail with 403 and leave the store unchanged; a
\* POST only creates a document that did not exist and a PUT or PATCH only
\* modifies an existing one.
C16_MethodPreconditions ==
  IsWrite =>
    /\ (Reaches /\ ~MethodFits) =>
         /\ res.response.status = 403
         /\ store = res.store
    /\ store # res.store =>
         /\ MethodFits
         /\ Addressed.path \in DOMAIN store
         /\ OnlyTargetChanged

\* C16 witness: an admin POSTs to the existing article d1
C16_Witness ==
  /\ IsWrite
  /\ res.roles = {"admin"}
  /\ res.method = "POST"
  /\ res.path = <<"articles", "d1">>
  /\ AddressesDoc
  /\ res.response = Response(403, "already exists")
  /\ store = res.store

SystemFields == {"_created", "_modified"}

\* C17: with no validate hook, after a successful PATCH the stored document
\* is the existing one overlaid field by field with the provided fields, and
\* after a successful PUT it holds the provided fields only, in both cases
\* plus _created and _modified.
C17_PatchMergesPutReplaces ==
  (IsWrite /\ res.method \in {"PUT", "PATCH"} /\ res.response.status = 200
     /\ WriteConfig.validate = "none") =>
    LET new == store[Addressed.path]
        old == res.store[Addressed.path]
        kept == IF res.method = "PATCH"
                THEN (DOMAIN old) \ ((DOMAIN res.body) \cup SystemFields)
                ELSE {}
    IN /\ DOMAIN new = kept \cup (DOMAIN res.body) \cup SystemFields
       /\ \A k \in DOMAIN res.body : new[k] = res.body[k]
       /\ \A k \in kept : new[k] = old[k]

\* C17 witness: a PUT on the post d1 without an email drops the email it had
C17_Witness ==
  /\ IsWrite
  /\ res.method = "PUT"
  /\ res.path = <<"posts", "d1">>
  /\ res.response.status = 200
  /\ "email" \in DOMAIN res.store[<<"posts", "d1">>]
  /\ "email" \notin DOMAIN res.body
  /\ "email" \notin DOMAIN store[<<"posts", "d1">>]

\* the candidate document the handler checks: the provided fields with the
\* system fields set
Checked ==
  [k \in (DOMAIN Provided) \cup SystemFields |->
     IF k \in SystemFields THEN Candidate(res.method, Existing, res.body,
                                          res.now)[k]
     ELSE Provided[k]]

SchemaFails ==
  WriteConfig.schema # "none" /\ ~validateWithSchema(Checked, WriteConfig.schema)
ValidateFails ==
  WriteConfig.validate # "none"
    /\ ApplyValidate(WriteConfig.validate, Checked).kind = "Error"
UniqueFails ==
  \E f \in WriteConfig.unique :
    LET data == IF WriteConfig.validate = "none" \/ ValidateFails THEN Checked
                ELSE ApplyValidate(WriteConfig.validate, Checked).data
    IN f \notin DOMAIN data \/ HeldByOther(f, data[f])

\* the steps the configuration asks for, in the order of the handler
StepsAsked ==
  (IF WriteConfig.schema # "none" THEN <<"schema">> ELSE <<>>)
  \o (IF WriteConfig.validate # "none" THEN <<"validate">> ELSE <<>>)
  \o (IF WriteConfig.unique # {} THEN <<"unique">> ELSE <<>>)
  \o <<"persist">>

\* the step of the recorded request that fails first, or none
FirstFailure ==
  IF SchemaFails THEN "schema"
  ELSE IF ValidateFails THEN "validate"
  ELSE IF UniqueFails THEN "unique"
  ELSE IF ~res.storeOk THEN "persist"
  ELSE "none"

\* the steps asked for up to and including the given one
UpTo(step) ==
  IF step = "none" THEN StepsAsked
  ELSE SubSeq(StepsAsked, 1,
              CHOOSE i \in 1..Len(StepsAsked) : StepsAsked[i] = step)

\* C18 as stated: the steps run in the order schema, validate hook,
\* uniqueness, persist; the first step that fails ends the request with a
\* 400 response, no later step runs and the document is left unmodified.
C18_FirstFailureAnswers400 ==
  (IsWrite /\ Reaches /\ MethodFits) =>
    /\ res.steps = UpTo(FirstFailure)
    /\ FirstFailure # "none" =>
         /\ res.response.status = 400
         /\ store = res.store

\* C18 amended: the steps run in the order schema, validate hook,
\* uniqueness, persist and no step runs after the first that fails; a
\* failing schema, validate hook or uniqueness check is answered 400, a
\* failing persist 500, and in each case the document is left unmodified.
C18_StepsInOrder ==
  (IsWrite /\ Reaches /\ MethodFits) =>
    /\ res.steps = UpTo(FirstFailure)
    /\ FirstFailure \in {"schema", "validate", "unique"} =>
         /\ res.response.status = 400
         /\ store = res.store
    /\ FirstFailure = "persist" =>
         /\ res.response = Response(500, "Save failed")
         /\ store = res.store
    /\ FirstFailure = "none" => res.response.status = 200

\* C18 witness: a PUT whose data fails the schema and would fail the validate
\* hook and the uniqueness check ends at the schema
C18_Witness ==
  /\ IsWrite
  /\ res.roles = {"admin"}
  /\ res.method = "PUT"
  /\ res.path = <<"articles", "d1">>
  /\ SchemaFails /\ ValidateFails /\ UniqueFails
  /\ res.steps = <<"schema">>
  /\ res.response = Response(400, "schema validation failed")
  /\ store = res.store

-----------------------------------------------------------------------------
(* Properties of the document cache, checked under SpecRead *)

\* the cache latency of the collection of the recorded request, in
\* milliseconds
LatencyMs ==
  LookupConfig(COLLECTIONS, collectionPath(res.path)).cacheLatencySeconds * 1000

\* the entry the cache held for the path when the request came in
HadEntry == CacheIndex(res.cache, res.path) # 0
EntryBefore == res.cache[CacheIndex(res.cache, res.path)]

\* the entry the cache holds for the path now
HasEntry == CacheIndex(docCache, res.path) # 0
EntryNow == docCache[CacheIndex(docCache, res.path)]

\* a getDoc on a cached collection for a path that was cached, by a caller
\* who is granted access
CachedRead ==
  /\ IsGetDoc
  /\ LatencyMs > 0
  /\ GetDocGrant # NONE
  /\ HadEntry

\* every entry expires cacheLatencySeconds after the read that stored it:
\* a read that consulted the store and succeeded leaves the entry of its data
Stores ==
  (IsGetDoc /\ LatencyMs > 0 /\ res.consulted /\ res.result.ok) =>
    /\ HasEntry
    /\ EntryNow = [key |-> res.path, data |-> res.result.data,
                   expiry |-> res.now + LatencyMs, lastAccess |-> res.now]

\* a read before the expiry returns the cached data without consulting the
\* store and leaves the expiry alone
HitsBeforeExpiry ==
  (CachedRead /\ res.now < EntryBefore.expiry) =>
    /\ res.result = Ok(EntryBefore.data)
    /\ ~res.consulted
    /\ HasEntry /\ EntryNow.expiry = EntryBefore.expiry

-----------------------------------------------------------------------------
(* Properties of the size of the cache, checked under SpecScan *)

\* C20: after any sequence of getDoc calls on cached collections the cache
\* holds at most MAX_CACHE_ENTRIES entries.
C20_CacheWithinMaximum == Len(docCache) <= MAX_CACHE_ENTRIES

-----------------------------------------------------------------------------
(* Properties of failures inside getDoc, checked under SpecRead *)

\* the recorded getDoc was served from the cache
ServedFromCache ==
  IsGetDoc /\ LatencyMs > 0 /\ HadEntry /\ res.now < EntryBefore.expiry

\* a store or internal failure occurred during the recorded getDoc: the
\* reference could not be built, or the store failed on ref.get()
InternalFailure ==
  /\ IsGetDoc
  /\ GetDocGrant # NONE
  /\ ~ServedFromCache
  /\ \/ Addressed.kind = "throw"
     \/ Addressed.kind = "doc" /\ ~res.storeOk

\* C21: a store or internal failure during getDoc is returned as a non-ok
\* result with status 500 to every caller, privileged or not.
C21_FailureIs500ForAll ==
  InternalFailure => (~res.result.ok /\ res.result.status = 500)

-----------------------------------------------------------------------------
(* Nested collections and the documented `post` configuration *)

\* the longest path handed to getRef and collectionPath
MaxPathLen == 4

\* the field map of the security model documentation
TitleContentAuthor ==
  FieldAccessMap([title |-> "true", content |-> "true", author |-> "true"])

\* `post` as documented in access.ts, with the field map of the security
\* model documentation for editors, and its sub-collection `post/comment`
PostRegistry ==
  (<<"post">> :>
     CollectionConfig(<<[role |-> "public",
                         config |-> AccessConfig(AccessFilterFunc("publishedOnly"),
                                                 NONE,
                                                 AccessFilterFunc("listPublished"))],
                        [role |-> "editor",
                         config |-> AccessConfig(TitleContentAuthor, NONE, NONE)],
                        [role |-> "admin",
                         config |-> AccessConfig(ALL, ALL, NONE)]>>,
                      {"title"}, {}, 0)) @@
  (<<"post", "comment">> :>
     CollectionConfig(<<[role |-> "public",
                         config |-> AccessConfig(ALL, NONE, ALL)]>>,
                      {"email"}, {"tags"}, 0))

\* posts and their comments
PostSeed ==
  (<<"post", "d1">> :>
     [title |-> "t1", content |-> "c1", author |-> "u1", authorEmail |-> "e1",
      published |-> "true"]) @@
  (<<"post", "d2">> :>
     [title |-> "t2", content |-> "c2", author |-> "u2", authorEmail |-> "e2"]) @@
  (<<"post", "d1", "comment", "d1">> :>
     [email |-> "e1", title |-> "t2", tags |-> "g1"]) @@
  (<<"post", "d2", "comment", "d1">> :> [email |-> "e1", tags |-> "g1"]) @@
  (<<"post", "d2", "comment", "d2">> :> [email |-> "e2", title |-> "t2"])

PostCallers == {anonymousUser, {"editor"}, {"admin"}}

\* the segments of the paths handed to getRef and collectionPath
Segments == {"post", "comment", "d1", "title=t2", "email=e1", "tags=g1", ""}

RefPaths == UNION {[1..n -> Segments] : n \in 1..MaxPathLen}

PostDocPaths ==
  { <<"post", "d1">>, <<"post", "d2">>, <<"post", "d3">>,
    <<"post", "title=t2">>, <<"post", "d1", "comment", "d1">>,
    <<"post", "d2", "comment", "d1">>, <<"post", "d2", "comment", "email=e1">>,
    <<"post", "d1", "comment", "title=t2">> }

PostListPaths ==
  { <<"post">>, <<"post", "title=t2">>, <<"post", "d1", "comment">>,
    <<"post", "d2", "comment">>, <<"post", "d2", "comment", "tags=g1">> }

InitPath ==
  /\ COLLECTIONS = PostRegistry
  /\ store = PostSeed
  /\ docCache = <<>>
  /\ now = 0
  /\ writes = 0
  /\ res = [op |-> "none"]
  /\ rateLimitMap = <<>>
  /\ lastCleanup = 0
  /\ admitted = <<0, 0>>
  /\ pending = <<>>

\* a call of getRef
CallGetRef ==
  /\ res.op = "none"
  /\ \E path \in RefPaths, isCollection \in BOOLEAN :
       res' = [op |-> "getRef", path |-> path, isCollection |-> isCollection,
               queries |-> getRefQueries(COLLECTIONS, store, path, isCollection),
               result |-> getRef(COLLECTIONS, store, path, isCollection)]
  /\ UNCHANGED <<COLLECTIONS, store, docCache, now, writes>>
  /\ UNCHANGED <<rateVars, pending>>

\* a call of collectionPath
CallCollectionPath ==
  /\ res.op = "none"
  /\ \E path \in RefPaths :
       res' = [op |-> "collectionPath", path |-> path,
               result |-> collectionPath(path)]
  /\ UNCHANGED <<COLLECTIONS, store, docCache, now, writes>>
  /\ UNCHANGED <<rateVars, pending>>

\* a call of getRecords
CallGetRecords ==
  /\ res.op = "none"
  /\ \E path \in PostListPaths, limit \in Limits, fields \in ListFields :
       res' = [op |-> "getRecords", path |-> path, limit |-> limit,
               fields |-> fields,
               result |-> getRecords(COLLECTIONS, store, path, limit, NoOrder,
                                     fields)]
  /\ UNCHANGED <<COLLECTIONS, store, docCache, now, writes>>
  /\ UNCHANGED <<rateVars, pending>>

\* a call of getDoc on a post or a comment inside a GET
GetDocPost ==
  /\ res.op = "none"
  /\ \E roles \in PostCallers, path \in PostDocPaths :
       LET r == getDoc(COLLECTIONS, store, docCache, now, roles, "GET", path,
                       TRUE)
       IN /\ res' = [op |-> "getDoc", roles |-> roles, method |-> "GET",
                     path |-> path, storeOk |-> TRUE, store |-> store,
                     cache |-> docCache, now |-> now,
                     consulted |-> r.consulted, result |-> r.result]
          /\ docCache' = r.cache
  /\ UNCHANGED <<COLLECTIONS, store, now, writes>>
  /\ UNCHANGED <<rateVars, pending>>

\* a call of getDocs on posts or comments
GetDocsPost ==
  /\ res.op = "none"
  /\ \E roles \in PostCallers, path \in PostListPaths, limit \in Limits :
       res' = [op |-> "getDocs", roles |-> roles, path |-> path,
               limit |-> limit, fields |-> NoFields, order |-> NoOrder,
               store |-> store, collections |-> COLLECTIONS,
               queried |-> listQueries(COLLECTIONS, roles, path, NoFields),
               result |-> getDocs(COLLECTIONS, store, roles, path, limit,
                                  NoFields, NoOrder)]
  /\ UNCHANGED <<COLLECTIONS, store, docCache, now, writes>>
  /\ UNCHANGED <<rateVars, pending>>

\* a GET on /docs for posts or comments
DocsPost ==
  /\ res.op = "none"
  /\ \E roles \in PostCallers, path \in PostListPaths, limit \in Limits :
       res' = [op |-> "docs", roles |-> roles, path |-> path,
               limit |-> limit, fields |-> NoFields, order |-> NoOrder,
               store |-> store, collections |-> COLLECTIONS,
               queried |-> listQueries(COLLECTIONS, roles, path, NoFields),
               response |-> docs(COLLECTIONS, store, roles, path, limit,
                                 NoFields, NoOrder)]
  /\ UNCHANGED <<COLLECTIONS, store, docCache, now, writes>>
  /\ UNCHANGED <<rateVars, pending>>

NextPath ==
  \/ CallGetRef \/ CallCollectionPath \/ CallGetRecords \/ GetDocPost
  \/ GetDocsPost \/ DocsPost \/ Done

SpecPath == InitPath /\ [][NextPath]_vars

-----------------------------------------------------------------------------
(* Properties of getRef, checked under SpecPath *)

IsGetRef == res.op = "getRef"

\* the positions of the field=value specifiers of the recorded path
Lookups ==
  {i \in 1..Len(res.path) : i % 2 = 0 /\ Len(SplitEq(res.path[i])) = 2}

\* the collection names accumulated up to a position of the recorded path
NamesUpTo(i) ==
  [k \in 1..(i \div 2) |-> res.path[2 * k - 1]]

\* the field of the specifier is a unique field or a tag field of the
\* configuration keyed by the accumulated collection names
AllowedKey(i) ==
  /\ NamesUpTo(i) \in DOMAIN COLLECTIONS
  /\ SplitEq(res.path[i])[1] \in
       COLLECTIONS[NamesUpTo(i)].unique \cup COLLECTIONS[NamesUpTo(i)].tagFields

\* the path up to a position consists of collection names and document ids
PlainBefore(i) ==
  \A k \in 1..(i - 1) : res.path[k] # "" /\ Len(SplitEq(res.path[k])) = 1

\* C22: getRef resolves a field=value segment only when the field is a
\* unique field or a tag field of the configuration keyed by the collection
\* names accumulated so far; otherwise it returns the Error 'not an allowed
\* key' without a store query on that field.
C22_LookupNeedsAllowedKey ==
  IsGetRef =>
    /\ \A i \in res.queries : AllowedKey(i)
    /\ res.result.kind \in {"doc", "collection", "query"} =>
         \A i \in Lookups : AllowedKey(i)
    /\ res.result = Error("not an allowed key") =>
         \E i \in Lookups : ~AllowedKey(i)
    /\ \A i \in Lookups :
         (PlainBefore(i) /\ ~AllowedKey(i)) =>
           /\ res.result = Error("not an allowed key")
           /\ res.queries = {}
    /\ \A i \in Lookups :
         (PlainBefore(i) /\ AllowedKey(i) /\ ~res.isCollection) =>
           i \in res.queries

\* C22 witness: `title` is unique for post but not for post/comment, so
\* post/d1/comment/title=t2 is refused without a query
C22_Witness ==
  /\ IsGetRef
  /\ res.path = <<"post", "d1", "comment", "title=t2">>
  /\ ~res.isCollection
  /\ "title" \in COLLECTIONS[<<"post">>].unique
  /\ res.result = Error("not an allowed key")
  /\ res.queries = {}

-----------------------------------------------------------------------------
(* Properties of _path, checked under SpecPath *)

\* a _path of the form collection/id, parent ids included
PathForm(p) ==
  /\ p # <<>>
  /\ Len(p) % 2 = 0
  /\ \A k \in 1..Len(p) : p[k] # "" /\ Len(SplitEq(p[k])) = 1

\* a single-document read of the _path resolves to the given document
Identifies(p, docPath) ==
  getRef(COLLECTIONS, store, p, FALSE) = DocRef(docPath)

\* the collection reference a recorded listing reads
ListedCollection == getRef(COLLECTIONS, store, res.path, TRUE).path

\* the record carries a _path that identifies the document of the listed
\* collection it was read from
RecordIdentified(r) ==
  /\ "_path" \in DOMAIN r
  /\ PathForm(r["_path"])
  /\ \E p \in DOMAIN store :
       /\ SubSeq(p, 1, Len(p) - 1) = ListedCollection
       /\ Identifies(r["_path"], p)
       /\ \A f \in DOMAIN r \ {"_path"} : f \in DOMAIN store[p] /\ r[f] = store[p][f]

\* _path of the document getDoc returns
GetDocPathIdentifies ==
  (IsGetDoc /\ res.result.ok) =>
    /\ "_path" \in DOMAIN res.result.data
    /\ PathForm(res.result.data["_path"])
    /\ Identifies(res.result.data["_path"], Addressed.path)

\* _path of the records getRecords returns
RecordPathsIdentify ==
  res.op = "getRecords" =>
    \A i \in 1..Len(res.result) : RecordIdentified(res.result[i])

\* _path of the records getDocs returns
ListPathsIdentify ==
  res.op = "getDocs" =>
    \A i \in 1..Len(res.result) :
      res.result[i].kind = "data" => RecordIdentified(res.result[i].data)

\* C23: every document returned by getDoc and every record returned by
\* getRecords and getDocs carries a _path of the form collection/id, parent
\* ids included, and a single-document read of that _path resolves to the
\* same document.
C23_PathIdentifiesDocument ==
  /\ GetDocPathIdentifies
  /\ RecordPathsIdentify
  /\ ListPathsIdentify

-----------------------------------------------------------------------------
(* Properties of the method categories, checked under SpecAccess *)

\* the access category of a method, "none" outside the vocabulary
Category(method) ==
  CASE method = "GET" -> "read"
    [] method \in {"POST", "PUT", "PATCH", "DELETE"} -> "write"
    [] method = "LIST" -> "list"
    [] OTHER -> "none"

\* the entries of public and of the roles the caller holds that declare a
\* grant for a category
Declaring(category) ==
  {i \in 1..Len(CallAccess) :
     /\ CallAccess[i].role \in res.roles \cup {"public"}
     /\ CallAccess[i].config[category] # NONE}

\* C24: getMethodAccess resolves GET against read, POST, PUT, PATCH and
\* DELETE against write, LIST against list, and returns undefined for any
\* other method; a grant declared for one category never authorizes a method
\* of another.
C24_MethodsResolveByCategory ==
  IsCall =>
    /\ Category(res.method) = "none" => res.result = NONE
    /\ Category(res.method) # "none" =>
         /\ \A method \in REST_METHOD :
              Category(method) = Category(res.method) =>
                getMethodAccess(res.collections, res.collectionPath, method,
                                res.roles, res.filterFields) = res.result
         /\ (CallConfig.exists /\ CallConfig.hasAccess) =>
              (res.result = NONE <=> Declaring(Category(res.method)) = {})

\* C24 witness: a DELETE by a caller whose only grant is for read is denied
C24_Witness ==
  /\ IsCall
  /\ res.method = "DELETE"
  /\ CallConfig.exists /\ CallConfig.hasAccess
  /\ Declaring("read") # {}
  /\ Declaring("write") = {}
  /\ res.result = NONE

-----------------------------------------------------------------------------
(* Properties of listings under the documented filter, checked under SpecPath *)

\* C25: a record for which the list filter function returns undefined is
\* excluded from the result of getDocs and of /docs: the listing holds the
\* filter outputs that are documents, and nothing else.
C25_UndefinedExcludesRecord ==
  (IsList /\ ListGrant.kind = "function") =>
    LET out(i) == ApplyAccess(ListGrant, Queried[i])
        kept == {i \in 1..Len(Queried) : out(i).kind = "data"}
    IN /\ Len(ListResult) = Cardinality(kept)
       /\ \A j \in 1..Len(ListResult) : ListResult[j].kind = "data"

\* C26: a read under the field map written as documented, `read: {title:
\* true, content: true, author: true}`, returns the document restricted to
\* the listed fields: title, content and author are carried, authorEmail is
\* hidden.
C26_DocumentedFieldMapRestricts ==
  (IsGetDoc /\ GetDocGrant = FieldFilterFunc(TitleContentAuthor.map)
            /\ AddressesDoc) =>
    /\ res.result.ok
    /\ \A f \in {"title", "content", "author"} \cap DOMAIN AddressedData :
         /\ f \in DOMAIN res.result.data
         /\ res.result.data[f] = AddressedData[f]
    /\ "authorEmail" \notin DOMAIN res.result.data

-----------------------------------------------------------------------------
(* Properties of collectionPath, checked under SpecPath *)

\* C28: collectionPath returns the segments at even positions (0, 2, ...) of
\* the path, so the document path c1/id1/.../cn/idn and the collection path
\* c1/id1/.../cn both map to c1/.../cn.
C28_CollectionPathKeepsNames ==
  res.op = "collectionPath" =>
    /\ Len(res.result) = (Len(res.path) + 1) \div 2
    /\ \A k \in 1..Len(res.result) : res.result[k] = res.path[2 * k - 1]
    /\ Len(res.path) % 2 = 0 =>
         collectionPath(SubSeq(res.path, 1, Len(res.path) - 1)) = res.result

\* C28 witness: the path of a comment maps to post/comment
C28_Witness ==
  /\ res.op = "collectionPath"
  /\ res.path = <<"post", "d1", "comment", "d1">>
  /\ res.result = <<"post", "comment">>
  /\ collectionPath(<<"post", "d1", "comment">>) = res.result

-----------------------------------------------------------------------------
(* utilities.ts: the rate limiter and optionsResponse *)

DEFAULT_RATE_LIMIT == [windowMs |-> 60 * 1000, maxRequests |-> 100]

CLEANUP_INTERVAL == 5 * 60 * 1000

\* cleanupRateLimitMap: the entries and lastCleanup it leaves
cleanupRateLimitMap(map, last, t, windowMs) ==
  IF t - last < CLEANUP_INTERVAL THEN [map |-> map, lastCleanup |-> last]
  ELSE [map |-> [ip \in {i \in DOMAIN map :
                           ~(map[i].windowStart < t - windowMs * 2)} |->
                   map[ip]],
        lastCleanup |-> t]

\* Map.set on the rate limit entries
RateSet(map, ip, entry) ==
  [i \in (DOMAIN map) \cup {ip} |-> IF i = ip THEN entry ELSE map[i]]

\* checkRateLimit that refuses the request that reaches maxRequests
checkRateLimitInclusive(map, last, t, ip, config) ==
  LET cleaned == cleanupRateLimitMap(map, last, t, config.windowMs)
      m == cleaned.map
  IN IF ip \notin DOMAIN m \/ t - m[ip].windowStart >= config.windowMs
       THEN [limited |-> FALSE,
             map |-> RateSet(m, ip, [count |-> 1, windowStart |-> t]),
             lastCleanup |-> cleaned.lastCleanup]
     ELSE [limited |-> m[ip].count + 1 >= config.maxRequests,
           map |-> [m EXCEPT ![ip].count = @ + 1],
           lastCleanup |-> cleaned.lastCleanup]

\* checkRateLimit: whether the request is answered 429, and the entries and
\* lastCleanup it leaves
checkRateLimit(map, last, t, ip, config) ==
  LET cleaned == cleanupRateLimitMap(map, last, t, config.windowMs)
      m == cleaned.map
  IN IF ip \notin DOMAIN m \/ t - m[ip].windowStart >= config.windowMs
       THEN [limited |-> FALSE,
             map |-> RateSet(m, ip, [count |-> 1, windowStart |-> t]),
             lastCleanup |-> cleaned.lastCleanup]
     ELSE [limited |-> m[ip].count + 1 > config.maxRequests,
           map |-> [m EXCEPT ![ip].count = @ + 1],
           lastCleanup |-> cleaned.lastCleanup]

\* optionsResponse: what it returns (TRUE when it has answered the request),
\* the status it answered with (0 when it has not answered), and the entries
\* and lastCleanup it leaves
optionsResponse(map, last, t, ip, method, options, rateLimit) ==
  LET checked == IF method # "OPTIONS"
                 THEN checkRateLimit(map, last, t, ip, rateLimit)
                 ELSE [limited |-> FALSE, map |-> map, lastCleanup |-> last]
      answer(returned, status) ==
        [returned |-> returned, status |-> status, map |-> checked.map,
         lastCleanup |-> checked.lastCleanup]
  IN IF checked.limited THEN answer(TRUE, 429)
     ELSE IF method = "OPTIONS" THEN answer(TRUE, 204)
     ELSE IF method \notin Range(options) THEN answer(TRUE, 403)
     ELSE answer(FALSE, 0)

\* requests beyond maxRequests sent in one window, and advances of the clock
MaxOver == 2
MaxRateTicks == 2

\* the step of the clock between requests: half a window
RateTickMs == 30000

ClientIPs == {"ip1"}

InitRate ==
  /\ COLLECTIONS = <<>>
  /\ store = <<>>
  /\ docCache = <<>>
  /\ now = 0
  /\ writes = 0
  /\ res = [op |-> "none"]
  /\ rateLimitMap = <<>>
  /\ lastCleanup = 0
  /\ admitted = <<0, 0>>
  /\ pending = <<>>

\* Date.now() advances by half a window; admitted keeps the requests let
\* through at the previous instant and at this one
RateTick ==
  /\ now % CLEANUP_INTERVAL < MaxRateTicks * RateTickMs
  /\ now' = now + RateTickMs
  /\ admitted' = <<admitted[2], 0>>
  /\ UNCHANGED <<COLLECTIONS, store, docCache, writes, res, rateLimitMap,
                 lastCleanup, pending>>

\* Date.now() advances by the cleanup interval
RateIdle ==
  /\ now < CLEANUP_INTERVAL
  /\ now' = now + CLEANUP_INTERVAL
  /\ admitted' = <<0, 0>>
  /\ UNCHANGED <<COLLECTIONS, store, docCache, writes, res, rateLimitMap,
                 lastCleanup, pending>>

\* a request reaches a handler that starts with optionsResponse(req, res)
Request ==
  /\ \E ip \in ClientIPs, method \in {"GET", "POST", "OPTIONS"} :
       /\ IF ip \notin DOMAIN rateLimitMap THEN TRUE
          ELSE IF now - rateLimitMap[ip].windowStart
                    >= DEFAULT_RATE_LIMIT.windowMs THEN TRUE
          ELSE rateLimitMap[ip].count < DEFAULT_RATE_LIMIT.maxRequests + MaxOver
       /\ LET r == optionsResponse(rateLimitMap, lastCleanup, now, ip, method,
                                   <<"OPTIONS", "GET">>, DEFAULT_RATE_LIMIT)
          IN /\ rateLimitMap' = r.map
             /\ lastCleanup' = r.lastCleanup
             /\ admitted' = IF method # "OPTIONS" /\ r.status # 429
                            THEN [admitted EXCEPT ![2] = @ + 1]
                            ELSE admitted
             /\ res' = [op |-> "optionsResponse", ip |-> ip, method |-> method,
                        now |-> now, returned |-> r.returned,
                        status |-> r.status]
  /\ UNCHANGED <<COLLECTIONS, store, docCache, now, writes, pending>>

NextRate == Request \/ RateTick \/ RateIdle

SpecRate == InitRate /\ [][NextRate]_vars

-----------------------------------------------------------------------------
(* Properties of the rate limiter, checked under SpecRate *)

IsRequest == res.op = "optionsResponse"

\* the requests let through within the last RateTickMs, an interval shorter
\* than the window
AdmittedLately == admitted[1] + admitted[2]

\* a request answered 429 is not handled
LimitedNotHandled == (IsRequest /\ res.status = 429) => res.returned

\* C27: with the default rate limit no more than maxRequests requests other
\* than OPTIONS from one client IP pass optionsResponse within any interval
\* of windowMs; further requests are answered 429 and are not handled.
C27_LimitInAnyInterval ==
  /\ AdmittedLately <= DEFAULT_RATE_LIMIT.maxRequests
  /\ LimitedNotHandled

\* the requests of the IP let through since its open window started
AdmittedInWindow(ip) ==
  IF rateLimitMap[ip].windowStart = now THEN admitted[2] ELSE AdmittedLately

Min(a, b) == IF a < b THEN a ELSE b

\* C27 amended: of the requests other than OPTIONS an IP sends from the one
\* that opens a window until windowMs later, the first maxRequests pass
\* optionsResponse and the others are answered 429 and are not handled; the
\* request that comes windowMs or more after the window opened opens a new
\* window, so up to twice maxRequests pass within an interval of windowMs.
C27_LimitPerWindow ==
  /\ \A ip \in DOMAIN rateLimitMap :
       now - rateLimitMap[ip].windowStart < DEFAULT_RATE_LIMIT.windowMs =>
         AdmittedInWindow(ip) =
           Min(rateLimitMap[ip].count, DEFAULT_RATE_LIMIT.maxRequests)
  /\ AdmittedLately <= 2 * DEFAULT_RATE_LIMIT.maxRequests
  /\ (IsRequest /\ res.method # "OPTIONS") =>
       (res.status = 429 <=>
          /\ res.ip \in DOMAIN rateLimitMap
          /\ rateLimitMap[res.ip].count > DEFAULT_RATE_LIMIT.maxRequests)
  /\ LimitedNotHandled

\* C27 witness: the request after the hundredth of a window is answered 429
C27_Witness ==
  /\ IsRequest
  /\ res.method = "GET"
  /\ res.status = 429
  /\ res.returned
  /\ rateLimitMap[res.ip].count = DEFAULT_RATE_LIMIT.maxRequests + 1
  /\ AdmittedInWindow(res.ip) = DEFAULT_RATE_LIMIT.maxRequests

-----------------------------------------------------------------------------
(* Overlapping writes on /doc *)

\* the writes that can be in flight at once
MaxInFlight == 2

InFlight == 1..MaxInFlight

\* a post, and two ids that are free
RaceSeed == <<"posts", "d1">> :> [name |-> "n1"]

RacePaths == {<<"posts", "d2">>, <<"posts", "d3">>}

RaceBodies == {[name |-> "n1"], [name |-> "n2"]}

InitRace ==
  /\ COLLECTIONS = Registry
  /\ store = RaceSeed
  /\ docCache = <<>>
  /\ now = 0
  /\ writes = 0
  /\ res = [op |-> "none"]
  /\ rateLimitMap = <<>>
  /\ lastCleanup = 0
  /\ admitted = <<0, 0>>
  /\ pending = <<>>

\* what the handler holds once its reads of the store are done: the response
\* when the request has ended there, else the outcome of the checks
readsDone(st, roles, method, path, body) ==
  LET pre == docPrelude(COLLECTIONS, st, roles, method, path)
      request == [roles |-> roles, method |-> method, path |-> path,
                  body |-> body, seen |-> st]
  IN IF pre.ended
       THEN request @@ [phase |-> "answered", response |-> pre.response]
     ELSE IF refusedByMethod(method, pre.ref.path \in DOMAIN st) # "none"
       THEN request @@
            [phase |-> "answered",
             response |-> Response(403, refusedByMethod(method,
                                          pre.ref.path \in DOMAIN st))]
     ELSE request @@
          [phase |-> "checked", target |-> pre.ref.path,
           checks |-> writeChecks(COLLECTIONS, st, pre.config, path, pre.ref,
                                  Candidate(method,
                                            IF pre.ref.path \in DOMAIN st
                                            THEN st[pre.ref.path] ELSE <<>>,
                                            body, now))]

\* a POST or PUT on /doc runs up to its last read of the store: the
\* document, the schema, the validate hook and the isUnique queries
BeginWrite ==
  /\ Len(pending) < MaxInFlight
  /\ \E roles \in {anonymousUser, {"author"}}, method \in {"POST", "PUT"},
        path \in RacePaths, body \in RaceBodies :
       pending' = Append(pending, readsDone(store, roles, method, path, body))
  /\ UNCHANGED <<COLLECTIONS, store, docCache, now, writes, res, rateVars>>

\* a write in flight goes on after its reads: ref.set and the response, or
\* the response of the check that failed
PersistWrite ==
  /\ \E i \in 1..Len(pending), storeOk \in BOOLEAN :
       /\ pending[i].phase = "checked"
       /\ LET p == persist(store, pending[i].method, pending[i].target,
                           pending[i].checks, storeOk)
          IN /\ store' = p.store
             /\ pending' = [pending EXCEPT
                              ![i] = [@ EXCEPT !.phase = "answered"] @@
                                     [response |-> p.response,
                                      storeOk |-> storeOk]]
  /\ UNCHANGED <<COLLECTIONS, docCache, now, writes, res, rateVars>>

NextRace == BeginWrite \/ PersistWrite

SpecRace == InitRace /\ [][NextRace]_vars

-----------------------------------------------------------------------------
(* Properties of overlapping writes, checked under SpecRace *)

\* the write passed the prelude and the precondition of its method
Ran(i) == "target" \in DOMAIN pending[i]

\* the write passed every check, the uniqueness check included
PassedChecks(i) == Ran(i) /\ pending[i].checks.response.status = 0

\* two POSTs that create different ids of one collection with the same
\* unique name, neither of which had been persisted when the other one
\* checked
OverlappingCreates(i, j) ==
  /\ i # j
  /\ PassedChecks(i) /\ PassedChecks(j)
  /\ pending[i].method = "POST" /\ pending[j].method = "POST"
  /\ pending[i].target # pending[j].target
  /\ pending[i].body["name"] = pending[j].body["name"]
  /\ pending[i].target \notin DOMAIN pending[j].seen
  /\ pending[j].target \notin DOMAIN pending[i].seen

Persisted(i) ==
  pending[i].phase = "answered" /\ Ran(i) /\ pending[i].storeOk

\* C29: two overlapping POSTs that create different ids with the same unique
\* value can both pass the uniqueness check before either persists; both
\* then succeed, and the store is left with two documents that hold the same
\* unique value.
C29_OverlappingCreatesBothSucceed ==
  \A i, j \in 1..Len(pending) :
    OverlappingCreates(i, j) =>
      /\ Persisted(i) =>
           /\ pending[i].response = Response(200, "created")
           /\ pending[i].target \in DOMAIN store
      /\ (Persisted(i) /\ Persisted(j)) =>
           store[pending[i].target]["name"] = store[pending[j].target]["name"]

\* C29 witness: both creations have been answered 200 and posts/d2 and
\* posts/d3 hold the same name, which is unique for posts
C29_Witness ==
  /\ Len(pending) = 2
  /\ OverlappingCreates(1, 2)
  /\ Persisted(1) /\ Persisted(2)
  /\ pending[1].response.status = 200 /\ pending[2].response.status = 200
  /\ "name" \in COLLECTIONS[<<"posts">>].unique
  /\ store[<<"posts", "d2">>]["name"] = store[<<"posts", "d3">>]["name"]

-----------------------------------------------------------------------------
(* Properties of what the cache hands out, checked under SpecRead *)

\* what the read grant of the caller yields for the addressed document
OwnView ==
  IF ReadGrant = ALL THEN Data(AddressedData)
  ELSE ApplyAccess(ReadGrant, AddressedData)

\* C30: the data getDoc serves from the cache never exceeds what the
\* caller's own read grant yields: a caller whose grant is a field map
\* receives no field outside the map, and a caller whose filter function
\* rejects the document does not receive it, whoever put it in the cache.
C30_CacheWithinOwnGrant ==
  (ServedFromCache /\ res.method = "GET" /\ ReadGrant # NONE /\ AddressesDoc) =>
    /\ OwnView.kind = "data"
    /\ res.result.ok =>
         (DOMAIN res.result.data) \ {"_path"} \subseteq DOMAIN OwnView.data

-----------------------------------------------------------------------------
(* Overlapping reads through getDoc *)

\* the calls of getDoc in a run
MaxReads == 2

ReadPaths == {<<"drafts", "d1">>, <<"drafts", "d2">>}

Readers == {anonymousUser, {"author"}}

\* getDoc up to the return of `await ref.get()`: the result when the call
\* ends before the document is filtered, else the document as read
getDocFetched(collections, st, cache, t, roles, method, path) ==
  LET access == getMethodAccess(collections, collectionPath(path), method,
                                roles, NoFields)
      config == LookupConfig(collections, collectionPath(path))
      ref == getRef(collections, st, path, FALSE)
      call == [roles |-> roles, method |-> method, path |-> path,
               startedAt |-> t]
      early == getDoc(collections, st, cache, t, roles, method, path, TRUE)
  IN IF \/ access = NONE
        \/ config.cacheLatencySeconds # 0 /\ CacheFresh(cache, path, t)
        \/ ~isDocRef(ref)
      THEN [cache |-> early.cache,
            call |-> call @@ [phase |-> "answered", result |-> early.result,
                              stored |-> FALSE,
                              hit |-> access # NONE /\ early.result.ok]]
     ELSE IF ref.path \notin DOMAIN st
      THEN [cache |-> early.cache,
            call |-> call @@ [phase |-> "answered", result |-> early.result,
                              stored |-> FALSE, hit |-> FALSE]]
     ELSE [cache |-> cache,
           call |-> call @@ [phase |-> "fetched", access |-> access,
                             raw |-> st[ref.path],
                             cacheSeconds |-> config.cacheLatencySeconds,
                             readAt |-> t]]

\* getDoc from the return of `await ref.get()` on: the filter, the insertion
\* in the cache and the result
getDocFiltered(cache, t, roles, access, path, raw, cacheSeconds) ==
  LET filtered == IF access = ALL THEN Data(raw) ELSE ApplyAccess(access, raw)
      data == SpreadWithPath(filtered, path)
  IN IF filtered.kind = "Error"
       THEN [result |-> opaqueError(roles, filtered.message, 403),
             cache |-> cache, stored |-> FALSE]
     ELSE [result |-> Ok(data),
           stored |-> cacheSeconds # 0,
           cache |-> IF cacheSeconds = 0 THEN cache
                     ELSE CacheSet(evictOldestCacheEntries(cache),
                                   [key |-> path, data |-> data,
                                    expiry |-> t + cacheSeconds * 1000,
                                    lastAccess |-> t])]

\* a call of getDoc runs up to the return of ref.get()
BeginRead ==
  /\ Len(pending) < MaxReads
  /\ \E roles \in Readers, path \in ReadPaths :
       LET r == getDocFetched(COLLECTIONS, store, docCache, now, roles, "GET",
                              path)
           entryIn(cache) == IF CacheIndex(cache, path) = 0 THEN <<>>
                             ELSE cache[CacheIndex(cache, path)]
       IN /\ pending' = Append(pending,
                               r.call @@ [entry |-> entryIn(docCache),
                                          after |-> entryIn(r.cache)])
          /\ docCache' = r.cache
  /\ UNCHANGED <<COLLECTIONS, store, now, writes, res, rateVars>>

\* a call of getDoc goes on after ref.get() has returned
FinishRead ==
  /\ \E i \in 1..Len(pending) :
       /\ pending[i].phase = "fetched"
       /\ LET r == getDocFiltered(docCache, now, pending[i].roles,
                                  pending[i].access, pending[i].path,
                                  pending[i].raw, pending[i].cacheSeconds)
          IN /\ docCache' = r.cache
             /\ pending' = [pending EXCEPT
                              ![i] = [@ EXCEPT !.phase = "answered"] @@
                                     [result |-> r.result, stored |-> r.stored,
                                      hit |-> FALSE, storedAt |-> now]]
  /\ UNCHANGED <<COLLECTIONS, store, now, writes, res, rateVars>>

\* a DELETE on /doc by an author while reads are in flight
DeleteWhileReading ==
  /\ writes < MaxWrites
  /\ \E path \in ReadPaths :
       LET r == docDELETE(COLLECTIONS, store, {"author"}, path, TRUE) IN
         /\ r.store # store
         /\ store' = r.store
         /\ writes' = writes + 1
  /\ UNCHANGED <<COLLECTIONS, docCache, now, res, rateVars, pending>>

\* Date.now() advances while reads are in flight
TickWhileReading ==
  /\ now < MaxTicks * TickMs
  /\ now' = now + TickMs
  /\ UNCHANGED <<COLLECTIONS, store, docCache, writes, res, rateVars, pending>>

NextOverlap == BeginRead \/ FinishRead \/ DeleteWhileReading \/ TickWhileReading

SpecOverlap == Init /\ [][NextOverlap]_vars

-----------------------------------------------------------------------------
(* Properties of overlapping reads, checked under SpecOverlap *)

ReadLatencyMs(path) ==
  LookupConfig(COLLECTIONS, collectionPath(path)).cacheLatencySeconds * 1000

\* every cache entry expires no later than cacheLatencySeconds after its data
\* was read from the store
EntriesExpireAfterRead ==
  \A k \in 1..Len(docCache) :
    \E i \in 1..Len(pending) :
      /\ pending[i].phase = "answered"
      /\ pending[i].stored
      /\ pending[i].path = docCache[k].key
      /\ pending[i].result.data = docCache[k].data
      /\ docCache[k].expiry <= pending[i].readAt + ReadLatencyMs(docCache[k].key)

\* a cache hit is served before the expiry of the entry and leaves the
\* expiry as it was
HitsWithinExpiry ==
  \A i \in 1..Len(pending) :
    (pending[i].phase = "answered" /\ pending[i].hit) =>
      /\ pending[i].entry # <<>>
      /\ pending[i].result.data = pending[i].entry.data
      /\ pending[i].startedAt < pending[i].entry.expiry
      /\ pending[i].after # <<>>
      /\ pending[i].after.expiry = pending[i].entry.expiry

\* C31: data getDoc serves from the cache was read from the store no more
\* than cacheLatencySeconds before it is served, also when reads overlap with
\* each other and with deletes; a cache hit never extends the expiry.
C31_CachedDataWithinLatency ==
  /\ EntriesExpireAfterRead
  /\ HitsWithinExpiry

-----------------------------------------------------------------------------
(* A cached collection that grants nothing to the public *)

\* `config` as documented in access.ts, cached, readable by editors and
\* admins and writable by authors and admins
SettingsRegistry ==
  <<"config">> :>
    CollectionConfig(<<[role |-> "editor",
                        config |-> AccessConfig(ALL, NONE, NONE)],
                       [role |-> "author",
                        config |-> AccessConfig(NONE, ALL, NONE)],
                       [role |-> "admin",
                        config |-> AccessConfig(ALL, ALL, ALL)]>>,
                     {}, {}, 2)

SettingsSeed ==
  (<<"config", "d1">> :> [name |-> "n1"]) @@
  (<<"config", "d2">> :> [name |-> "n2"])

SettingsPaths ==
  {<<"config", "d1">>, <<"config", "d2">>, <<"config", "d3">>}

InitSettings ==
  /\ COLLECTIONS = SettingsRegistry
  /\ store = SettingsSeed
  /\ docCache = <<>>
  /\ now = 0
  /\ writes = 0
  /\ res = [op |-> "none"]
  /\ rateLimitMap = <<>>
  /\ lastCleanup = 0
  /\ admitted = <<0, 0>>
  /\ pending = <<>>

\* a call of getDoc on `config` inside a request of the given method
GetDocSettings ==
  /\ res.op = "none"
  /\ \E roles \in Callers, method \in {"GET", "POST", "PUT"},
        path \in SettingsPaths, storeOk \in BOOLEAN :
       LET r == getDoc(COLLECTIONS, store, docCache, now, roles, method, path,
                       storeOk)
       IN /\ res' = [op |-> "getDoc", roles |-> roles, method |-> method,
                     path |-> path, storeOk |-> storeOk, store |-> store,
                     cache |-> docCache, now |-> now,
                     consulted |-> r.consulted, result |-> r.result]
          /\ docCache' = r.cache
  /\ UNCHANGED <<COLLECTIONS, store, now, writes, rateVars, pending>>

NextSettings == Tick \/ GetDocSettings \/ Done

SpecSettings == InitSettings /\ [][NextSettings]_vars

-----------------------------------------------------------------------------
(* Properties of the grant getDoc resolves, checked under SpecSettings *)

\* the cache held a fresh entry for the path when the request came in
FreshEntry == HadEntry /\ res.now < EntryBefore.expiry

\* getDoc resolves the grant before it looks in the cache: a caller for whom
\* it resolves no grant is refused, the cache neither read nor changed
DeniedBeforeCache ==
  (IsGetDoc /\ GetDocGrant = NONE) =>
    /\ ~res.result.ok
    /\ ~res.consulted
    /\ docCache = res.cache

\* C32: getDoc never returns cached data to a caller whose read grant is
\* undefined: such a caller gets a non-ok result even while a fresh entry
\* for the path is cached.
C32_NoReadGrantNoCachedData ==
  (IsGetDoc /\ ReadGrant = NONE) => ~res.result.ok

\* C38: getDoc resolves access under the read category whatever the method
\* of the enclosing request: a caller with no read grant is never served a
\* document, and a caller with a read grant is never refused with 403/404
\* for lack of a grant.
C38_GetDocResolvesRead ==
  IsGetDoc =>
    /\ GetDocGrant = ReadGrant
    /\ ReadGrant = NONE => ~res.result.ok
    /\ (ReadGrant = ALL /\ AddressesDoc /\ res.storeOk) => res.result.ok

-----------------------------------------------------------------------------
(* A scan of a cached collection while the clock advances *)

\* ticks of the clock during the scan
MaxScanTicks == 1

TickWhileScanning ==
  /\ res.op = "none"
  /\ now < MaxScanTicks * TickMs
  /\ now' = now + TickMs
  /\ UNCHANGED <<COLLECTIONS, store, docCache, writes, res, rateVars, pending>>

\* a getDoc of an author for the next document of the scan or for the first
\* one again
GetDocEvict ==
  /\ res.op = "none"
  /\ \E k \in {1, Scanned(docCache) + 1} \cap (1..MaxDocs) :
       LET r == getDoc(COLLECTIONS, store, docCache, now, {"author"}, "GET",
                       ScanPath(k), TRUE)
       IN /\ res' = [op |-> "getDoc", roles |-> {"author"}, method |-> "GET",
                     path |-> ScanPath(k), storeOk |-> TRUE, store |-> store,
                     cache |-> docCache, now |-> now,
                     consulted |-> r.consulted, result |-> r.result]
          /\ docCache' = r.cache
          /\ UNCHANGED <<COLLECTIONS, store, now, writes>>
  /\ UNCHANGED <<rateVars, pending>>

NextEvict ==
  \/ TickWhileScanning
  \/ GetDocEvict
  \/ Done

SpecEvict == InitScan /\ [][NextEvict]_vars

-----------------------------------------------------------------------------
(* Properties of the eviction, checked under SpecEvict *)

\* the recorded getDoc missed the cache and inserted the document it read
Inserted ==
  /\ IsGetDoc
  /\ res.result.ok
  /\ res.consulted
  /\ LatencyMs > 0

\* the entries the cache held for other paths when the request came in, and
\* those of them that are gone, or still cached, after it
EntriesOf(cache) == {cache[i] : i \in 1..Len(cache)}
KeysOf(cache) == {cache[i].key : i \in 1..Len(cache)}
OtherEntries == {e \in EntriesOf(res.cache) : e.key # res.path}
EvictedEntries == {e \in OtherEntries : e.key \notin KeysOf(docCache)}
SurvivingEntries == {e \in OtherEntries : e.key \in KeysOf(docCache)}

\* the smallest and the largest lastAccess of a set of entries
Least(entries) ==
  CHOOSE t \in {e.lastAccess : e \in entries} :
    \A e \in entries : t <= e.lastAccess
Latest(entries) ==
  CHOOSE t \in {e.lastAccess : e \in entries} :
    \A e \in entries : e.lastAccess <= t

\* the insertion found the cache over its bound
OverBound == Inserted /\ Len(res.cache) > MAX_CACHE_ENTRIES

\* C33: an insertion that finds the cache over its bound evicts in one pass
\* the ceil(0.2 x MAX_CACHE_ENTRIES) = 20 entries with the smallest
\* lastAccess: no surviving entry has a lastAccess older than that of an
\* evicted one. lastAccess is the time of the entry's insertion or of its
\* latest hit: a getDoc that answers from or fills the cache stamps the
\* entry of its path with the time of the call and leaves the lastAccess of
\* every other entry it keeps as it was.
C33_EvictsLeastRecentlyUsed ==
  /\ OverBound =>
       /\ IF res.path \notin KeysOf(res.cache)
          THEN Cardinality(EvictedEntries) = 20
          ELSE Cardinality(EvictedEntries) \in {19, 20}
       /\ SurvivingEntries # {} =>
            Latest(EvictedEntries) <= Least(SurvivingEntries)
  /\ (IsGetDoc /\ res.result.ok /\ LatencyMs > 0) =>
       /\ docCache[CacheIndex(docCache, res.path)].lastAccess = res.now
       /\ \A i \in 1..Len(docCache) :
            docCache[i].key # res.path => docCache[i] \in OtherEntries

\* C33 witness: an insertion found more than MAX_CACHE_ENTRIES entries, some
\* stamped before and some after a tick of the clock, evicted twenty of them
\* and kept an entry that was inserted before an evicted one but hit after it
C33_Witness ==
  /\ OverBound
  /\ Cardinality(EvictedEntries) = 20
  /\ \E s \in SurvivingEntries, e \in EvictedEntries :
       /\ CacheIndex(res.cache, s.key) < CacheIndex(res.cache, e.key)
       /\ s.lastAccess > e.lastAccess

-----------------------------------------------------------------------------
(* Writes through /doc while the clock advances *)

\* writes of one run
MaxStamped == 3

StampPaths == {<<"posts", "d1">>, <<"posts", "d3">>, <<"articles", "d3">>}

\* request bodies, some of them with stamps of their own
StampBodies ==
  { [name |-> "n3"],
    [name |-> "n3", _created |-> "1", _modified |-> "1"],
    [author |-> "u1", _created |-> ""] }

\* a POST, PUT or PATCH on /doc by an author or an admin
StampedWrite ==
  /\ res.op = "none"
  /\ writes < MaxStamped
  /\ \E roles \in {{"author"}, {"admin"}}, method \in {"POST", "PUT", "PATCH"},
        path \in StampPaths, body \in StampBodies, storeOk \in BOOLEAN :
       LET r == docWRITE(COLLECTIONS, store, now, roles, method, path, body,
                         storeOk)
       IN
         /\ res' = [op |-> "write", roles |-> roles, method |-> method,
                    path |-> path, body |-> body, storeOk |-> storeOk,
                    store |-> store, now |-> now, steps |-> r.steps,
                    response |-> r.response]
         /\ store' = r.store
         /\ writes' = IF r.store # store THEN writes + 1 ELSE writes
         /\ UNCHANGED <<COLLECTIONS, docCache, now>>
  /\ UNCHANGED <<rateVars, pending>>

NextStamps ==
  \/ Tick
  \/ StampedWrite
  \/ Done

SpecStamps == Init /\ [][NextStamps]_vars

-----------------------------------------------------------------------------
(* Properties of the stamps, checked under SpecStamps *)

\* the instant a stamp of the endpoint stands for
TimeOf(stamp) ==
  CHOOSE t \in {k * TickMs : k \in 0..(MaxTicks + 1)} : ToString(t) = stamp

\* the recorded write succeeded
Succeeded == IsWrite /\ res.response.status = 200

\* the document the recorded write left at the addressed path
WrittenDoc == store[Addressed.path]

\* C34: across successful writes through /doc `_created` keeps the value set
\* when the document was created, whatever `_created` or `_modified` the
\* request body supplies, and `_modified` is the time of the latest write,
\* so it never precedes `_created`.
C34_CreatedKeptModifiedLatest ==
  /\ Succeeded =>
       /\ WrittenDoc["_modified"] = ToString(res.now)
       /\ WrittenDoc["_created"] =
            IF AddressesDoc /\ Truthy(AddressedData, "_created")
            THEN AddressedData["_created"]
            ELSE ToString(res.now)
  /\ \A r \in DOMAIN store :
       "_created" \in DOMAIN store[r] =>
         TimeOf(store[r]["_created"]) <= TimeOf(store[r]["_modified"])

\* C34 witness: a document created through /doc at 0 is overwritten later by
\* a request whose body names stamps of its own, and keeps `_created`
C34_Witness ==
  /\ Succeeded
  /\ res.method \in {"PUT", "PATCH"}
  /\ res.path = <<"posts", "d3">>
  /\ "_created" \in DOMAIN res.body
  /\ res.now > 0
  /\ AddressedData["_created"] = "0"
  /\ WrittenDoc["_created"] = "0"
  /\ TimeOf(WrittenDoc["_modified"]) = res.now

-----------------------------------------------------------------------------
(* state.ts: the /state endpoint *)

\* { ...data, _created: data._created || now, _modified: now, _path }
pushRecord(collectionName, doc, t) ==
  LET data == Restrict(doc, (DOMAIN doc) \ {"_id"})
      stamp == ToString(t)
  IN [k \in (DOMAIN data) \cup {"_created", "_modified", "_path"} |->
        CASE k = "_created" ->
               IF Truthy(data, "_created") THEN data["_created"] ELSE stamp
          [] k = "_modified" -> stamp
          [] k = "_path" -> <<collectionName, doc["_id"]>>
          [] OTHER -> data[k]]

\* set(record, { merge: true }): the fields of the record laid over those of
\* the stored document
setMerge(st, target, record) ==
  [r \in (DOMAIN st) \cup {target} |->
     IF r # target THEN st[r]
     ELSE IF target \notin DOMAIN st THEN record
     ELSE [k \in (DOMAIN st[target]) \cup (DOMAIN record) |->
             IF k \in DOMAIN record THEN record[k] ELSE st[target][k]]]

\* the loop over the documents of one collection: the store it leaves and
\* the counts of successes and errors
RECURSIVE pushDocuments(_, _, _, _, _, _)
pushDocuments(st, t, collectionName, documents, storeOk, i) ==
  IF i > Len(documents) THEN [store |-> st, success |-> 0, errors |-> 0]
  ELSE
    LET doc == documents[i]
        written == Truthy(doc, "_id") /\ storeOk
        rest == pushDocuments(
                  IF written
                  THEN setMerge(st, <<collectionName, doc["_id"]>>,
                                pushRecord(collectionName, doc, t))
                  ELSE st,
                  t, collectionName, documents, storeOk, i + 1)
    IN [store |-> rest.store,
        success |-> rest.success + (IF written THEN 1 ELSE 0),
        errors |-> rest.errors + (IF written THEN 0 ELSE 1)]

\* pushState: the loop over the collections of the request body
RECURSIVE pushState(_, _, _, _, _)
pushState(st, t, state, storeOk, i) ==
  IF i > Len(state) THEN [store |-> st, results |-> <<>>]
  ELSE
    LET entry == state[i]
        pushed == IF entry.isArray
                  THEN pushDocuments(st, t, entry.collection, entry.documents,
                                     storeOk, 1)
                  ELSE [store |-> st, success |-> 0, errors |-> 1]
        rest == pushState(pushed.store, t, state, storeOk, i + 1)
    IN [store |-> rest.store,
        results |-> <<[collection |-> entry.collection,
                       success |-> pushed.success,
                       errors |-> pushed.errors]>> \o rest.results]

\* the handler of /state for the action `push`, of a client within its rate
\* limit
statePush(st, t, roles, method, state, storeOk) ==
  IF method = "OPTIONS" THEN [response |-> Response(204, ""), store |-> st]
  ELSE IF method \notin {"GET", "POST"}
    THEN [response |-> Response(403, ""), store |-> st]
  ELSE IF "owner" \notin roles
    THEN [response |-> Response(403, "Owner role required"), store |-> st]
  ELSE LET r == pushState(st, t, state, storeOk, 1) IN
         [response |-> Response(200, r.results), store |-> r.store]

\* request bodies of /state/push: seed data for collections of the registry
PushStates ==
  { <<[collection |-> "posts", isArray |-> TRUE,
       documents |-> <<[_id |-> "d3", name |-> "n3"]>>]>>,
    <<[collection |-> "posts", isArray |-> TRUE,
       documents |-> <<[_id |-> "d1", name |-> "n1"], [name |-> "n4"]>>],
      [collection |-> "articles", isArray |-> FALSE, documents |-> <<>>]>>,
    <<[collection |-> "articles", isArray |-> TRUE,
       documents |-> <<[_id |-> "d3", name |-> "n3", author |-> "u1"]>>]>> }

\* writes of one run through /doc and /state
MaxPushed == 2

\* a request to /state/push
StatePush ==
  /\ res.op = "none"
  /\ writes < MaxPushed
  /\ \E roles \in {{"admin"}, {"owner"}}, method \in {"POST", "PUT"},
        state \in PushStates, storeOk \in BOOLEAN :
       LET r == statePush(store, now, roles, method, state, storeOk) IN
         /\ res' = [op |-> "push", roles |-> roles, method |-> method,
                    state |-> state, storeOk |-> storeOk, store |-> store,
                    now |-> now, response |-> r.response]
         /\ store' = r.store
         /\ writes' = IF r.store # store THEN writes + 1 ELSE writes
  /\ UNCHANGED <<COLLECTIONS, docCache, now, rateVars, pending>>

\* request bodies of /doc, one of them with a `_path` of its own
PathBodies ==
  { [name |-> "n3", author |-> "u1"],
    [name |-> "n5", author |-> "u1", _path |-> <<"posts", "zz">>] }

\* a POST, PUT or PATCH on /doc
PushedWrite ==
  /\ res.op = "none"
  /\ writes < MaxPushed
  /\ \E roles \in {{"author"}, {"admin"}}, method \in {"POST", "PUT", "PATCH"},
        path \in StampPaths, body \in PathBodies, storeOk \in BOOLEAN :
       LET r == docWRITE(COLLECTIONS, store, now, roles, method, path, body,
                         storeOk)
       IN
         /\ res' = [op |-> "write", roles |-> roles, method |-> method,
                    path |-> path, body |-> body, storeOk |-> storeOk,
                    store |-> store, now |-> now, steps |-> r.steps,
                    response |-> r.response]
         /\ store' = r.store
         /\ writes' = IF r.store # store THEN writes + 1 ELSE writes
  /\ UNCHANGED <<COLLECTIONS, docCache, now, rateVars, pending>>

NextState ==
  \/ StatePush
  \/ PushedWrite
  \/ Done

SpecState == Init /\ [][NextState]_vars

-----------------------------------------------------------------------------
(* Properties of the stored documents, checked under SpecState *)

\* a write through /doc never leaves a `_path` in the document it writes
DocWriteStripsPath ==
  (IsWrite /\ res.response.status = 200) =>
    "_path" \notin DOMAIN store[Addressed.path]

\* C35: `_path` is never persisted: after any sequence of writes through
\* /doc and /state/push no stored document has a `_path` field.
C35_PathNeverPersisted ==
  \A r \in DOMAIN store : "_path" \notin DOMAIN store[r]

-----------------------------------------------------------------------------
(* Properties of the registry and of role-sets, checked under SpecAccess *)

IsGetMethodAccess == res.op = "getMethodAccess"

\* C36: getMethodAccess is a pure lookup: no call, with or without requested
\* fields, modifies the collection registry or a field map inside it, so a
\* resolution gives the same grant before and after any other call.
C36_RegistryUnchanged ==
  IsGetMethodAccess =>
    /\ COLLECTIONS = res.collections
    /\ \A c \in CollectionPaths, method \in Methods,
          roles \in CallerRoles, filterFields \in FilterFields :
         getMethodAccess(COLLECTIONS, c, method, roles,
                         filterFields)
           = getMethodAccess(res.collections, c, method, roles,
                             filterFields)

\* the grant the recorded call would have returned for another role-set
GrantFor(roles) ==
  getMethodAccess(res.collections, res.collectionPath, res.method, roles,
                  res.filterFields)

\* the entry of the access map the resolution of a role-set ends on
EntryFor(roles) ==
  ResolvedEntry(LookupConfig(res.collections, res.collectionPath).access,
                accessMap[res.method], roles)

\* C37: adding a role to a caller's role-set never turns a grant into a
\* denial: when getMethodAccess returns a grant for a role-set, it returns
\* a grant for every superset of it.
C37_MoreRolesNeverDenied ==
  (IsGetMethodAccess /\ res.result # NONE) =>
    \A roles \in CallerRoles :
      res.roles \subseteq roles => GrantFor(roles) # NONE

\* C37 witness: a caller is granted through a role it holds, and a superset
\* of its roles holds a role declared later in the access map that declares
\* nothing for the category
C37_Witness ==
  /\ IsGetMethodAccess
  /\ res.result # NONE
  /\ res.roles # {}
  /\ \E roles \in CallerRoles :
       LET access == LookupConfig(res.collections, res.collectionPath).access
       IN /\ res.roles \subseteq roles
          /\ roles # res.roles
          /\ EntryFor(res.roles) # 0
          /\ access[EntryFor(res.roles)].role \in res.roles
          /\ \E i \in 1..Len(access) :
               /\ i > EntryFor(res.roles)
               /\ access[i].role \in roles \ res.roles
               /\ access[i].config[accessMap[res.method]] = NONE
          /\ GrantFor(roles) # NONE

-----------------------------------------------------------------------------
(* utilities.ts: getUserRoles *)

\* String.prototype.toLowerCase on the addresses of the model
toLowerCase(s) ==
  CASE s = "A@X" -> "a@x"
    [] s = "B@X" -> "b@x"
    [] OTHER -> s

\* the verified callers: the uid and the e-mail of the decoded token
Tokens ==
  { [uid |-> "u1", email |-> "a@x"], [uid |-> "u2", email |-> "B@X"],
    [uid |-> "u3", email |-> "c@x"] }

\* role records: one that names two callers by e-mail and knows no uid yet,
\* and one that knows its user by uid
RoleSeed ==
  (<<"role", "r1">> :>
     [name |-> "editors", roles |-> <<"editor">>, userIds |-> <<>>,
      contacts |-> {[type |-> "email", value |-> "A@X"],
                    [type |-> "email", value |-> "b@x"],
                    [type |-> "phone", value |-> "c@x"]}]) @@
  (<<"role", "r2">> :>
     [name |-> "owners", roles |-> <<"owner">>, userIds |-> <<"u9">>,
      contacts |-> {}])

\* getRecords('role', 'userIds', 'array-contains', uid, 2): the ids found
rolesOfUid(st, uid) ==
  {r \in DOMAIN st : r[1] = "role" /\ uid \in Range(st[r].userIds)}

\* allRoles.find(...): the records one of whose e-mail contacts is the
\* caller's address, whatever the case of the letters
rolesOfEmail(st, email) ==
  {r \in DOMAIN st :
     /\ r[1] = "role"
     /\ \E contact \in st[r].contacts :
          /\ contact.type = "email"
          /\ toLowerCase(contact.value) = toLowerCase(email)}

\* requests of getUserRoles in one run
MaxRoleRequests == 3

InitRoles ==
  /\ COLLECTIONS = Registry
  /\ store = RoleSeed
  /\ docCache = <<>>
  /\ now = 0
  /\ writes = 0
  /\ res = [op |-> "none"]
  /\ rateLimitMap = <<>>
  /\ lastCleanup = 0
  /\ admitted = <<0, 0>>
  /\ pending = <<>>

\* a request answered: the role record found, if any, how it was found and
\* whether the request updated the record
Answered(call, record, fast, updated) ==
  [uid |-> call.uid, email |-> call.email, phase |-> "answered",
   record |-> record, fast |-> fast, updated |-> updated, userIds |-> <<>>]

\* getUserRoles up to the answer of the query by uid: found, the request
\* is answered on the fast path
LookupByUid ==
  /\ Len(pending) < MaxRoleRequests
  /\ \E user \in Tokens :
       LET found == rolesOfUid(store, user.uid) IN
         pending' = Append(pending,
           IF found # {}
           THEN Answered(user, CHOOSE r \in found : TRUE, TRUE, FALSE)
           ELSE [uid |-> user.uid, email |-> user.email, phase |-> "fallback",
                 record |-> <<>>, fast |-> FALSE, updated |-> FALSE,
                 userIds |-> <<>>])
  /\ UNCHANGED <<COLLECTIONS, store, docCache, now, writes, res, rateVars>>

\* the fallback: all role records are read and the one matched by e-mail,
\* if any, gets the uid pushed onto the userIds that were read
LookupByEmail ==
  /\ \E i \in 1..Len(pending) :
       /\ pending[i].phase = "fallback"
       /\ LET found == rolesOfEmail(store, pending[i].email) IN
            pending' = [pending EXCEPT ![i] =
              IF found = {} THEN Answered(pending[i], <<>>, FALSE, FALSE)
              ELSE LET record == CHOOSE r \in found : TRUE IN
                IF pending[i].uid \in Range(store[record].userIds)
                THEN Answered(pending[i], record, FALSE, FALSE)
                ELSE [pending[i] EXCEPT
                        !.phase = "update", !.record = record,
                        !.userIds = Append(store[record].userIds,
                                           pending[i].uid)]]
  /\ UNCHANGED <<COLLECTIONS, store, docCache, now, writes, res, rateVars>>

\* .doc(matchingRole._id).update({ userIds }) and the answer
UpdateUserIds ==
  /\ \E i \in 1..Len(pending) :
       /\ pending[i].phase = "update"
       /\ store' = [store EXCEPT ![pending[i].record].userIds =
                                   pending[i].userIds]
       /\ pending' = [pending EXCEPT ![i] =
                        Answered(pending[i], pending[i].record, FALSE, TRUE)]
  /\ UNCHANGED <<COLLECTIONS, docCache, now, writes, res, rateVars>>

NextRoles == LookupByUid \/ LookupByEmail \/ UpdateUserIds

SpecRoles == InitRoles /\ [][NextRoles]_vars

-----------------------------------------------------------------------------
(* Properties of the role records, checked under SpecRoles *)

\* the requests that have written their uid to a role record
Updaters == {i \in 1..Len(pending) : pending[i].updated}

\* C39: getUserRoles adds a caller's uid to the userIds of the role record
\* matched by e-mail at most once per uid, also when requests overlap: a uid
\* once written is never lost from userIds, so no later request of that
\* caller updates the record again.
C39_UidWrittenOnceAndKept ==
  /\ \A i \in Updaters, j \in Updaters :
       pending[i].uid = pending[j].uid => i = j
  /\ \A i \in Updaters :
       pending[i].uid \in Range(store[pending[i].record].userIds)

-----------------------------------------------------------------------------
(* blog.ts: the post collection, the blog cache and the prefetch *)

DEFAULT_CACHE_DURATION_MS == 86400000

\* COLLECTIONS.post
BlogRegistry ==
  <<"post">> :>
    [CollectionConfig(<<[role |-> "public",
                         config |-> AccessConfig(ALL, NONE,
                                                 AccessFilterFunc("hasDate"))],
                        [role |-> "author",
                         config |-> AccessConfig(NONE, ALL, ALL)]>>,
                      {"title", "path"}, {}, 0)
       EXCEPT !.schema = "PostSchema", !.validate = "postValidate"]

\* one published post; the cache record does not exist yet
BlogSeed ==
  <<"post", "d1">> :>
    [title |-> "First Post", content |-> "c1", path |-> "first-post",
     date |-> "2024-01-01", _created |-> "0", _modified |-> "0"]

BlogCachePath == <<"config", "blog-cache">>

\* setRecord(collectionName, record, id): the record replaces the document
setRecord(st, t, collectionName, record, id) ==
  LET stamped ==
        [k \in (DOMAIN record) \cup {"_created", "_modified", "_id"} |->
           CASE k = "_created" ->
                  IF "_created" \in DOMAIN record THEN record["_created"]
                  ELSE ToString(t)
             [] k = "_modified" -> ToString(t)
             [] k = "_id" -> id
             [] OTHER -> record[k]]
  IN [r \in (DOMAIN st) \cup {<<collectionName, id>>} |->
        IF r = <<collectionName, id>> THEN stamped ELSE st[r]]

\* getRecord(collectionName, id): the document, when there is one
getRecord(st, collectionName, id) ==
  IF <<collectionName, id>> \in DOMAIN st
  THEN [found |-> TRUE, data |-> st[<<collectionName, id>>]]
  ELSE [found |-> FALSE, data |-> <<>>]

\* clearBlogCache: the cache record is replaced by { cleared }
clearBlogCache(st, t) ==
  setRecord(st, t, "config", [cleared |-> ToString(t)], "blog-cache")

\* cacheExpired of onPrefetch
cacheExpired(blogCache, t) ==
  IF ~blogCache.found THEN TRUE
  ELSE IF "latestPosts" \notin DOMAIN blogCache.data THEN TRUE
  ELSE IF blogCache.data["latestPosts"] = <<>> THEN TRUE
  ELSE (IF "timestamp" \in DOMAIN blogCache.data
        THEN TimeOf(blogCache.data["timestamp"]) ELSE 0)
         + DEFAULT_CACHE_DURATION_MS < t

RecentFields == Fields(<<"title", "date", "summary", "keywords", "path">>)

\* the two listings of onPrefetch
blogLists(collections, st, roles) ==
  [latestPosts |-> getDocs(collections, st, roles, <<"post">>, 6, NoFields,
                           OrderBy("date", "(desc)")),
   recentPosts |-> getDocs(collections, st, roles, <<"post">>, 30,
                           RecentFields, OrderBy("date", "(desc)"))]

\* requests of one run
MaxBlogRequests == 3

BlogPaths == {<<"post", "d1">>, <<"post", "d2">>}

BlogBodies ==
  { [title |-> "Second Post", content |-> "c2", date |-> "2024-02-01"],
    [content |-> "c4"] }

InitBlog ==
  /\ COLLECTIONS = BlogRegistry
  /\ store = BlogSeed
  /\ docCache = <<>>
  /\ now = 0
  /\ writes = 0
  /\ res = [op |-> "none"]
  /\ rateLimitMap = <<>>
  /\ lastCleanup = 0
  /\ admitted = <<0, 0>>
  /\ pending = <<>>

\* nothing is in flight
Quiet == \A i \in 1..Len(pending) : pending[i].phase = "answered"

\* the answer of a prefetch: the lists and the timestamp of the cache record
Prefetched(call, lists, timestamp) ==
  [kind |-> "prefetch", phase |-> "answered", roles |-> call.roles,
   quiet |-> call.quiet, lists |-> lists, timestamp |-> timestamp]

\* onPrefetch up to the answer of getRecord('config', 'blog-cache'): a cache
\* record that has not expired is the answer
BeginPrefetch ==
  /\ Len(pending) < MaxBlogRequests
  /\ LET blogCache == getRecord(store, "config", "blog-cache")
         call == [roles |-> anonymousUser, quiet |-> Quiet]
     IN pending' = Append(pending,
          IF cacheExpired(blogCache, now)
          THEN [kind |-> "prefetch", phase |-> "query", roles |-> call.roles,
                quiet |-> call.quiet, lists |-> <<>>, timestamp |-> ""]
          ELSE Prefetched(call,
                          [latestPosts |-> blogCache.data["latestPosts"],
                           recentPosts |-> blogCache.data["recentPosts"]],
                          blogCache.data["timestamp"]))
  /\ UNCHANGED <<COLLECTIONS, store, docCache, now, writes, res, rateVars>>

\* the two getDocs of a prefetch that found the cache expired
QueryPosts ==
  /\ \E i \in 1..Len(pending) :
       /\ pending[i].phase = "query"
       /\ pending' = [pending EXCEPT ![i] =
            [pending[i] EXCEPT !.phase = "save",
                               !.lists = blogLists(COLLECTIONS, store,
                                                   pending[i].roles)]]
  /\ UNCHANGED <<COLLECTIONS, store, docCache, now, writes, res, rateVars>>

\* the lists are stamped and saved as the cache record, and answered
SaveBlogCache ==
  /\ \E i \in 1..Len(pending) :
       /\ pending[i].phase = "save"
       /\ store' = setRecord(store, now, "config",
                             [timestamp |-> ToString(now),
                              recentPosts |-> pending[i].lists.recentPosts,
                              latestPosts |-> pending[i].lists.latestPosts],
                             "blog-cache")
       /\ pending' = [pending EXCEPT ![i] =
            Prefetched(pending[i], pending[i].lists, ToString(now))]
  /\ UNCHANGED <<COLLECTIONS, docCache, now, writes, res, rateVars>>

\* a POST, PUT or PATCH of a post by an author runs up to its last read of
\* the store; the validate hook, when the request reaches it, clears the
\* blog cache
BeginSave ==
  /\ Len(pending) < MaxBlogRequests
  /\ \E method \in {"POST", "PUT", "PATCH"}, path \in BlogPaths,
        body \in BlogBodies :
       LET r == readsDone(store, {"author"}, method, path, body) IN
         /\ pending' = Append(pending, r @@ [kind |-> "save"])
         /\ store' = IF r.phase = "checked"
                        /\ "validate" \in Range(r.checks.steps)
                     THEN clearBlogCache(store, now)
                     ELSE store
  /\ UNCHANGED <<COLLECTIONS, docCache, now, writes, res, rateVars>>

\* ref.set and the response of a save in flight
PersistSave ==
  /\ \E i \in 1..Len(pending), storeOk \in BOOLEAN :
       /\ pending[i].phase = "checked"
       /\ LET p == persist(store, pending[i].method, pending[i].target,
                           pending[i].checks, storeOk)
          IN /\ store' = p.store
             /\ pending' = [pending EXCEPT
                              ![i] = [@ EXCEPT !.phase = "answered"] @@
                                     [response |-> p.response,
                                      storeOk |-> storeOk]]
  /\ UNCHANGED <<COLLECTIONS, docCache, now, writes, res, rateVars>>

\* ticks of the clock while the blog is read and written
MaxBlogTicks == 1

\* the clock, while requests are in flight or not
TickBlog ==
  /\ now < MaxBlogTicks * TickMs
  /\ now' = now + TickMs
  /\ UNCHANGED <<COLLECTIONS, store, docCache, writes, res, rateVars, pending>>

NextBlog ==
  \/ BeginPrefetch
  \/ QueryPosts
  \/ SaveBlogCache
  \/ BeginSave
  \/ PersistSave
  \/ TickBlog

SpecBlog == InitBlog /\ [][NextBlog]_vars

-----------------------------------------------------------------------------
(* Properties of the blog cache, checked under SpecBlog *)

\* the saves that have completed successfully
Saved ==
  {i \in 1..Len(pending) :
     /\ pending[i].kind = "save"
     /\ pending[i].phase = "answered"
     /\ pending[i].response.status = 200}

\* no save is in flight
NoSaveInFlight ==
  \A i \in 1..Len(pending) :
    pending[i].kind = "save" => pending[i].phase = "answered"

\* the lists a prefetch of the anonymous caller computes from the store
StoreLists == blogLists(COLLECTIONS, store, anonymousUser)

\* C40: once a save of a post has completed, the next blog prefetch
\* recomputes the lists from the store, and no interleaving of a save with
\* a prefetch leaves the pre-save lists in the cache record with a fresh
\* timestamp after the save has completed.
C40_SaveVisibleToPrefetch ==
  LET blogCache == getRecord(store, "config", "blog-cache") IN
    /\ (Saved # {} /\ NoSaveInFlight /\ ~cacheExpired(blogCache, now)) =>
         /\ blogCache.data["latestPosts"] = StoreLists.latestPosts
         /\ blogCache.data["recentPosts"] = StoreLists.recentPosts
    /\ \A j \in 1..Len(pending) :
         (/\ pending[j].kind = "prefetch"
          /\ pending[j].phase = "answered"
          /\ pending[j].quiet
          /\ j = Len(pending)
          /\ Saved # {}) => pending[j].lists = StoreLists

====
